---- MODULE Spec2Model ----
(***************************************************************************)
(* Model of the chunked parallel transcription orchestrator of            *)
(* tonguekeeper (src/ml/audio_pipeline.py, src/ml/runpod_handler.py).     *)
(*                                                                         *)
(* Times are integers in milliseconds, so that round(x, 2) (rounding to    *)
(* hundredths of a second) is a real conversion.  Texts are sequences of   *)
(* one-character strings, so that str.strip() is a real conversion.        *)
(***************************************************************************)
EXTENDS Integers, Sequences, FiniteSets, TLC

\* ------------------------------------------------------------------------
\* Bounds of the model
\* ------------------------------------------------------------------------
\* largest number of chunks (len(r2_urls)) of a run
MaxChunks == 3

\* ------------------------------------------------------------------------
\* Program constants
\* ------------------------------------------------------------------------
\* transcribe_chunks(..., chunk_seconds: int = 30)
chunk_seconds == 30

\* variant of Offset: the timestamps are left chunk-local
OffsetForgotten(chunk_index) == 0

\* chunk_index * chunk_seconds, in milliseconds
Offset(chunk_index) == chunk_index * chunk_seconds * 1000

\* ------------------------------------------------------------------------
\* Pure helpers
\* ------------------------------------------------------------------------
\* round() to a multiple of q, ties to the even multiple (Python 3 round)
RoundTo(x, q) ==
    LET lo == (x \div q) * q
        r  == x - lo
    IN  IF 2 * r < q THEN lo
        ELSE IF 2 * r > q THEN lo + q
        ELSE IF (lo \div q) % 2 = 0 THEN lo ELSE lo + q

\* round(x, 2) of a time in seconds: to the nearest 10 ms
Round2(ms) == RoundTo(ms, 10)

\* round(p, 3) of a probability held in units of 1/10000
Round3(p) == RoundTo(p, 10)

RECURSIVE LStrip(_)
LStrip(s) == IF s # <<>> /\ Head(s) = " " THEN LStrip(Tail(s)) ELSE s

RECURSIVE RStrip(_)
RStrip(s) ==
    IF s # <<>> /\ s[Len(s)] = " " THEN RStrip(SubSeq(s, 1, Len(s) - 1)) ELSE s

\* str.strip()
Strip(s) == RStrip(LStrip(s))

\* ------------------------------------------------------------------------
\* Python floats (IEEE 754 binary64) of the sizes the pipeline handles
\* ------------------------------------------------------------------------
\* A float x with 0 <= x < 2^20 is held exactly, as its digits in base 1024,
\* most significant first: two digits before the point and FracLimbs
\* digits after it (60 binary places).  Every float from 0.01 up is a
\* multiple of 2^-59, so the differences of the pipeline's times and their
\* products with 1000 are held exactly before they are rounded.
Base == 1024
LimbBits == 10
FracLimbs == 6
\* significant binary digits of a binary64
Precision == 53

\* long division r / 100 (0 <= r < 100): the first k digits after the point
\* and the remainder left after them
RECURSIVE FracDigits(_, _)
FracDigits(r, k) ==
    IF k = 0 THEN [digits |-> <<>>, rem |-> r]
    ELSE LET rest == FracDigits((r * Base) % 100, k - 1)
         IN  [digits |-> <<(r * Base) \div 100>> \o rest.digits, rem |-> rest.rem]

\* number of binary digits of v (0 for 0)
BitLen(v) == IF v = 0 THEN 0 ELSE CHOOSE b \in 1..LimbBits : 2^(b - 1) <= v /\ v < 2^b

\* position of the first non-zero digit, or 0 when there is none
FirstLimb(x) ==
    IF \A i \in 1..Len(x) : x[i] = 0 THEN 0
    ELSE CHOOSE i \in 1..Len(x) : x[i] # 0 /\ \A j \in 1..(i - 1) : x[j] = 0

\* k zero digits
RECURSIVE Zeros(_)
Zeros(k) == IF k = 0 THEN <<>> ELSE Append(Zeros(k - 1), 0)

\* the first i digits of x + u units of digit i, with the carry into the
\* digits before it
RECURSIVE AddAt(_, _, _)
AddAt(x, i, u) ==
    IF i = 0 THEN <<>>
    ELSE LET t == x[i] + u
         IN  Append(AddAt(x, i - 1, t \div Base), t % Base)

\* the nearest binary64 to the exact value x (+ something below the last
\* digit when sticky): round to Precision significant binary digits, ties
\* to even
RoundSig(x, sticky) ==
    LET f == FirstLimb(x)
    IN  IF f = 0 THEN x
        ELSE
        LET \* binary position (1 = most significant of digit 1) of the
            \* leading 1 and of the last digit kept
            p == LimbBits * (f - 1) + (LimbBits - BitLen(x[f]) + 1)
            cut == p + Precision - 1
            ci == ((cut - 1) \div LimbBits) + 1
            unit == 2^(LimbBits * ci - cut)
        IN  IF cut >= LimbBits * Len(x) THEN x
            ELSE
            LET tail == x[ci] % unit
                lowerZero == \A j \in (ci + 1)..Len(x) : x[j] = 0
                guard == IF unit > 1 THEN tail >= unit \div 2
                         ELSE x[ci + 1] >= Base \div 2
                below == \/ sticky
                         \/ IF unit > 1
                            THEN tail % (unit \div 2) # 0 \/ ~lowerZero
                            ELSE \/ x[ci + 1] % (Base \div 2) # 0
                                 \/ \E j \in (ci + 2)..Len(x) : x[j] # 0
                odd == (x[ci] \div unit) % 2 = 1
                kept == SubSeq(x, 1, ci - 1) \o <<x[ci] - tail>>
            IN  IF guard /\ (below \/ odd)
                THEN AddAt(kept, ci, unit) \o Zeros(Len(x) - ci)
                ELSE kept \o Zeros(Len(x) - ci)

\* the digits of an int 0 <= k < 2^20
IntDigits(k) == <<k \div Base, k % Base>>

\* int(x) of a float x >= 0
Trunc(x) == x[1] * Base + x[2]

\* the float nearest to h / 100: what round(x, 2) returns and what a JSON
\* number with two decimals parses to
FromHundredths(h) ==
    LET frac == FracDigits(h % 100, FracLimbs)
    IN  RoundSig(IntDigits(h \div 100) \o frac.digits, frac.rem # 0)

\* float(k) of an int k
FromInt(k) == IntDigits(k) \o Zeros(FracLimbs)

\* x < y
FloatLess(x, y) ==
    \E i \in 1..Len(x) : x[i] < y[i] /\ \A j \in 1..(i - 1) : x[j] = y[j]

\* the digits of the exact x - y (x >= y), from digit i down, given the
\* borrow of the digits below i
RECURSIVE DiffDigits(_, _, _, _)
DiffDigits(x, y, i, borrow) ==
    IF i = 0 THEN <<>>
    ELSE LET d == x[i] - y[i] - borrow
         IN  Append(DiffDigits(x, y, i - 1, IF d < 0 THEN 1 ELSE 0),
                    IF d < 0 THEN d + Base ELSE d)

\* x - y: sign and magnitude; the magnitude is the exact difference rounded
FloatSub(x, y) ==
    IF FloatLess(x, y)
    THEN [neg |-> TRUE, mag |-> RoundSig(DiffDigits(y, x, Len(x), 0), FALSE)]
    ELSE [neg |-> FALSE, mag |-> RoundSig(DiffDigits(x, y, Len(x), 0), FALSE)]

\* d >= y for a signed d and a float y > 0
SignedGeq(d, y) == ~d.neg /\ ~FloatLess(d.mag, y)

\* int(x // k) for a float x >= 0 and an int k > 0
FloorDivInt(x, k) == Trunc(x) \div k

\* the digits of the exact x * k, from digit i down, with the carry of the
\* digits below i
RECURSIVE MulDigits(_, _, _, _)
MulDigits(x, k, i, carry) ==
    IF i = 0 THEN <<>>
    ELSE LET t == x[i] * k + carry
         IN  Append(MulDigits(x, k, i - 1, t \div Base), t % Base)

\* x * k for a float x >= 0 and an int k > 0 with x * k < 2^20
FloatMulInt(x, k) == RoundSig(MulDigits(x, k, Len(x), 0), FALSE)

\* ------------------------------------------------------------------------
\* The RunPod handler: what a worker returns for one chunk
\* ------------------------------------------------------------------------
HandlerWord(w) ==
    [word |-> Strip(w.word), start |-> Round2(w.start), end |-> Round2(w.end),
     probability |-> Round3(w.probability)]

\* seg_data of one Whisper segment; the "words" key exists only if seg.words
HandlerSegment(seg) ==
    IF seg.words # <<>>
    THEN [start |-> Round2(seg.start), end |-> Round2(seg.end),
          text |-> Strip(seg.text),
          words |-> [k \in 1..Len(seg.words) |-> HandlerWord(seg.words[k])]]
    ELSE [start |-> Round2(seg.start), end |-> Round2(seg.end),
          text |-> Strip(seg.text)]

HandlerSegments(raw) == [k \in 1..Len(raw) |-> HandlerSegment(raw[k])]

\* Whisper outputs (chunk-local, milliseconds) the workers may produce
RawA == << [start |-> 2004, end |-> 3000, text |-> <<" ", "a", "b">>,
            words |-> << [word |-> <<" ", "h", "i">>, start |-> 2004,
                          end |-> 2496, probability |-> 9876] >>] >>
RawB == << [start |-> 0, end |-> 1000, text |-> <<"b">>, words |-> <<>>],
           [start |-> 0, end |-> 2000, text |-> <<"c">>, words |-> <<>>] >>
RawC == << [start |-> 29996, end |-> 30004, text |-> <<"d">>, words |-> <<>>] >>
RawResults == {RawA, RawB, RawC, <<>>}

\* the "segments" lists a COMPLETED job can carry
SegmentLists == {HandlerSegments(raw) : raw \in RawResults}

\* status responses that end _poll_runpod_job, and its exceptions
PollOutcomes ==
    [kind : {"result"}, status : {"COMPLETED"}, output : {"segments"},
     segments : SegmentLists]
    \cup [kind : {"result"}, status : {"COMPLETED"}, output : {"error", "null"},
          segments : {<<>>}]
    \cup [kind : {"result"}, status : {"FAILED"}, output : {"none"},
          segments : {<<>>}]
    \cup [kind : {"TimeoutError", "Exception"}, status : {"none"},
          output : {"none"}, segments : {<<>>}]

\* ------------------------------------------------------------------------
\* transcribe_chunks
\* ------------------------------------------------------------------------
VARIABLES
    configured,     \* RUNPOD_ENDPOINT_ID and RUNPOD_API_KEY are set
    n,              \* len(r2_urls)
    pc,             \* position in transcribe_chunks
    idx,            \* position of the submit loop (phase 1 and retry)
    nextJob,        \* next job id the backend hands out
    jobs,           \* [(chunk_index, job_id)]
    futures,        \* unresolved poll tasks: set of <<chunk_index, job_id>>
    all_segments,   \* entries appended so far, each with its origin
    completed,      \* counter of completed chunks
    failed_chunks,  \* [(chunk_index, r2_url)] for retry
    retry_jobs,     \* [(chunk_index, job_id)] of the retry round
    returned,       \* the list transcribe_chunks returned
    submits,        \* history: submissions per chunk index
    polls,          \* history: poll tasks per chunk index
    res1,           \* history: how the first-pass job of a chunk resolved
    res2,           \* history: how the retry job of a chunk resolved
    last            \* history: the outcome the latest loop step handled

pipelineVars == <<configured, n, pc, idx, nextJob, jobs, futures, all_segments,
                  completed, failed_chunks, retry_jobs, returned, submits,
                  polls, res1, res2, last>>

\* one poll task (_poll_runpod_job)
VARIABLES
    poll_pc,        \* "idle", "loop", "returned" or "raised"
    elapsed,        \* time.time() - start, in seconds
    data            \* the latest status response, or what the task resolved with

pollVars == <<poll_pc, elapsed, data>>

\* clip_and_upload_words
VARIABLES
    transcript,     \* segments: the transcript handed in
    chunk_paths,    \* len(chunk_paths)
    clip_pc,        \* position in clip_and_upload_words
    seen,           \* dict text -> word, in insertion order
    clip_idx,       \* position of the clipping loop in seen
    clip_tasks,     \* [(clip_path, r2_key)], with the slice that was cut
    word_clips,     \* dict text -> r2_key or URL, in insertion order
    uploads,        \* the upload futures: "pending", "ok" or "failed"
    consumed,       \* results of executor.map the loop has handled
    result,         \* the dict clip_and_upload_words returned
    order           \* history: the uploads in the order they completed

clipVars == <<transcript, chunk_paths, clip_pc, seen, clip_idx, clip_tasks,
              word_clips, uploads, consumed, result, order>>

\* process_video
VARIABLES
    video_pc,       \* position in process_video
    work_dir,       \* "none", "exists" or "purged"
    api_key,        \* ANTHROPIC_API_KEY is set
    locals,         \* chunk_paths, r2_urls, segments, transcript, word_clips,
                    \* corrected_transcript
    cache,          \* <<payload>> once set_cache stored it, <<>> before
    video_result,   \* <<result>> once process_video returned, <<>> before
    error,          \* the stage whose exception is propagating, or "none"
    requests_made,  \* history: calls of the correction service
    cache_failed,   \* history: set_cache raised
    sink_lost       \* history: emissions the event sink failed to take

videoVars == <<video_pc, work_dir, api_key, locals, cache, video_result,
               error, requests_made, cache_failed, sink_lost>>

\* chunk_audio
VARIABLES
    chunk_pc,       \* "idle", "loop", "done" or "raised"
    total_ms,       \* len(audio)
    chunk_ms,       \* chunk_seconds * 1000
    cut_offset,     \* offset: start of the next slice
    chunk_files     \* chunk_paths, each with the range its file holds

chunkVars == <<chunk_pc, total_ms, chunk_ms, cut_offset, chunk_files>>

\* upload_chunks_to_r2
VARIABLES
    upload_pc,      \* "idle", "loop", "done" or "raised"
    upload_i,       \* i of the for loop
    urls,           \* r2_urls: the list being built
    upload_result,  \* <<list>> once the function returned, <<>> before
    stored          \* history: the uploads made, as [chunk, key]

uploadVars == <<upload_pc, upload_i, urls, upload_result, stored>>

stageVars == <<videoVars, chunkVars, uploadVars>>

\* the language choices of process_video
VARIABLES
    lang_pc,            \* "idle", "resolve", "name" or "done"
    contact_languages,  \* the list handed in (empty when absent)
    language_code,      \* the code handed in
    whisper_lang,       \* what resolve_whisper_language returned
    contact_lang_name   \* the name handed to correct_transcription

langVars == <<lang_pc, contact_languages, language_code, whisper_lang,
              contact_lang_name>>

\* the /transcribe endpoint with _runpod_request
VARIABLES
    srv_pc,             \* "idle", "check", "runsync", "poll" or "responded"
    srv_configured,     \* RUNPOD_ENDPOINT_ID and RUNPOD_API_KEY are set
    srv_elapsed,        \* time.time() - start_time, in seconds
    srv_outcome,        \* how _runpod_request ended: exception and response
    http_status,        \* status of the HTTP response, 0 before
    backend_requests    \* history: requests sent to RunPod

serverVars == <<srv_pc, srv_configured, srv_elapsed, srv_outcome, http_status,
                backend_requests>>

\* the RunPod handler (runpod_handler.py)
VARIABLES
    hd_pc,              \* "idle", "validate", "request", "stream", "probe",
                        \* "transcribe" or "done"
    job_input,          \* has audio_url, and the task
    tmp_files,          \* files of this invocation present in TMP_DIR
    audio_path,         \* "None" or the name of the downloaded file
    truncated_path,     \* "None" or the name of the truncated copy
    downloaded,         \* blocks of the body received
    was_truncated,
    handler_out,        \* "none", "error", "result" or "raised"
    problem,            \* history: what ended the invocation
    fell_through        \* history: a failure the probe section passed over

handlerVars == <<hd_pc, job_input, tmp_files, audio_path, truncated_path,
                 downloaded, was_truncated, handler_out, problem, fell_through>>

\* the discovery agent (fetchai/discovery_agent.py)
VARIABLES
    agent_pc,           \* "idle", "wait", "payment", "parse" or "discover"
    inbox,              \* the ChatMessages delivered to the agent, in order
    msg_i,              \* number of the message in hand, 0 before the first
    outbox,             \* what ctx.send has sent, in order
    discovered,         \* history: messages discover_sources was called for
    handler_raised      \* history: messages whose handler ended by raising

agentVars == <<agent_pc, inbox, msg_i, outbox, discovered, handler_raised>>

auxVars == <<langVars, serverVars, handlerVars, agentVars>>

\* what the functions of one group leave alone
exceptLang == <<pipelineVars, pollVars, clipVars, stageVars, serverVars,
                handlerVars, agentVars>>
exceptServer == <<pipelineVars, pollVars, clipVars, stageVars, langVars,
                  handlerVars, agentVars>>
exceptHandler == <<pipelineVars, pollVars, clipVars, stageVars, langVars,
                   serverVars, agentVars>>
exceptAgent == <<pipelineVars, pollVars, clipVars, stageVars, langVars,
                 serverVars, handlerVars>>

vars == <<pipelineVars, pollVars, clipVars, stageVars, auxVars>>

\* the poll task and the word extractor at rest
PollIdle == poll_pc = "idle" /\ elapsed = 0 /\ data = "none"
ClipIdle ==
    /\ transcript = <<>> /\ chunk_paths = 0 /\ clip_pc = "idle" /\ seen = <<>>
    /\ clip_idx = 0 /\ clip_tasks = <<>> /\ word_clips = <<>> /\ uploads = <<>>
    /\ consumed = 0 /\ result = <<>> /\ order = <<>>

\* local variables of process_video before the transcription step
NoLocals ==
    [chunk_paths |-> 0, r2_urls |-> 0, segments |-> <<>>, transcript |-> <<>>,
     word_clips |-> <<>>, corrected_transcript |-> <<>>]

VideoIdle ==
    /\ video_pc = "idle" /\ work_dir = "none" /\ api_key = FALSE
    /\ locals = NoLocals /\ cache = <<>>
    /\ video_result = <<>> /\ error = "none" /\ requests_made = 0
    /\ cache_failed = FALSE /\ sink_lost = 0

ChunkIdle ==
    /\ chunk_pc = "idle" /\ total_ms = 0 /\ chunk_ms = 0 /\ cut_offset = 0
    /\ chunk_files = <<>>

UploadIdle ==
    /\ upload_pc = "idle" /\ upload_i = 0 /\ urls = <<>>
    /\ upload_result = <<>> /\ stored = <<>>

StagesIdle == VideoIdle /\ ChunkIdle /\ UploadIdle

LangIdle ==
    /\ lang_pc = "idle" /\ contact_languages = <<>> /\ language_code = <<>>
    /\ whisper_lang = <<>> /\ contact_lang_name = ""

\* _runpod_request has not ended
NoOutcome == [exc |-> "none", status |-> "none", output |-> "none"]

ServerIdle ==
    /\ srv_pc = "idle" /\ srv_configured = FALSE /\ srv_elapsed = 0
    /\ srv_outcome = NoOutcome /\ http_status = 0 /\ backend_requests = 0

HandlerIdle ==
    /\ hd_pc = "idle"
    /\ job_input = [audio_url |-> FALSE, task |-> "transcribe"]
    /\ tmp_files = {} /\ audio_path = "None" /\ truncated_path = "None"
    /\ downloaded = 0 /\ was_truncated = FALSE
    /\ handler_out = "none" /\ problem = "none" /\ fell_through = "none"

AgentIdle ==
    /\ agent_pc = "idle" /\ inbox = <<>> /\ msg_i = 0 /\ outbox = <<>>
    /\ discovered = {} /\ handler_raised = {}

AuxIdle == LangIdle /\ ServerIdle /\ HandlerIdle /\ AgentIdle

Chunks == 0..(MaxChunks - 1)

\* r2_urls[i]: the retrieval URL of chunk i
r2_urls(i) == <<"chunk", i>>

\* history record of one attempt: st is "none" (no attempt yet),
\* "submit_failed", "pending", "ok" (segments were merged), "failed" (the
\* poll resolved without success) or "raised"
NoAttempt == [st |-> "none", segments |-> <<>>]
Attempt(st, segments) == [st |-> st, segments |-> segments]

Init ==
    /\ configured \in BOOLEAN
    /\ n \in 0..MaxChunks
    /\ pc = "start"
    /\ idx = 0
    /\ nextJob = 1
    /\ jobs = <<>>
    /\ futures = {}
    /\ all_segments = <<>>
    /\ completed = 0
    /\ failed_chunks = <<>>
    /\ retry_jobs = <<>>
    /\ returned = <<>>
    /\ submits = [i \in Chunks |-> 0]
    /\ polls = [i \in Chunks |-> 0]
    /\ res1 = [i \in Chunks |-> NoAttempt]
    /\ res2 = [i \in Chunks |-> NoAttempt]
    /\ last = "none"
    /\ PollIdle
    /\ ClipIdle
    /\ StagesIdle
    /\ AuxIdle

\* _process_result: "None", "raise" (TypeError on a null output) or
\* "segments" (output.get("segments", []))
ProcessResult(o) ==
    IF o.status = "FAILED" THEN "None"
    ELSE IF o.output = "null" THEN "raise"
    ELSE IF o.output = "error" THEN "None"
    ELSE "segments"

\* how one resolved future is classified by the loop body
Classify(o) ==
    IF o.kind \in {"TimeoutError", "Exception"} THEN "None"
    ELSE ProcessResult(o)

\* the history name of an outcome
OutcomeKind(o) ==
    IF o.kind # "result" THEN o.kind
    ELSE IF o.status = "FAILED" THEN "FAILED"
    ELSE IF o.output = "error" THEN "handler_error"
    ELSE IF o.output = "null" THEN "null_output"
    ELSE "Success"

\* variant of Entry: the words keep their chunk-local times
EntryWordsLocal(seg, offset) ==
    IF "words" \in DOMAIN seg
    THEN [start |-> Round2(seg.start + offset),
          end |-> Round2(seg.end + offset),
          text |-> seg.text,
          words |-> [k \in 1..Len(seg.words) |->
                       [word |-> seg.words[k].word,
                        start |-> Round2(seg.words[k].start),
                        end |-> Round2(seg.words[k].end),
                        probability |-> seg.words[k].probability]]]
    ELSE [start |-> Round2(seg.start + offset),
          end |-> Round2(seg.end + offset),
          text |-> seg.text]

\* entry built from one segment of a result
Entry(seg, offset) ==
    IF "words" \in DOMAIN seg
    THEN [start |-> Round2(seg.start + offset),
          end |-> Round2(seg.end + offset),
          text |-> seg.text,
          words |-> [k \in 1..Len(seg.words) |->
                       [word |-> seg.words[k].word,
                        start |-> Round2(seg.words[k].start + offset),
                        end |-> Round2(seg.words[k].end + offset),
                        probability |-> seg.words[k].probability]]]
    ELSE [start |-> Round2(seg.start + offset),
          end |-> Round2(seg.end + offset),
          text |-> seg.text]

\* variant of AppendSegments: only the first segment of a result is kept
AppendFirstSegment(list, segments, chunk_index, round) ==
    IF segments = <<>> THEN list
    ELSE Append(list, [entry |-> Entry(segments[1], Offset(chunk_index)),
                       chunk |-> chunk_index, round |-> round])

\* for seg in segments: all_segments.append(entry); each element keeps, as
\* history, the chunk and the round (1 or 2) it came from
AppendSegments(list, segments, chunk_index, round) ==
    list \o [k \in 1..Len(segments) |->
               [entry |-> Entry(segments[k], Offset(chunk_index)),
                chunk |-> chunk_index, round |-> round]]

\* variant of RecordFailed: the URL is taken at the position in the failed
\* list instead of at the chunk index
RecordFailedWrongUrl(fc, chunk_index) ==
    Append(fc, <<chunk_index, r2_urls(Len(fc))>>)

\* variant of RecordFailed: the chunk is recorded by two branches
RecordFailedTwice(fc, chunk_index) ==
    Append(Append(fc, <<chunk_index, r2_urls(chunk_index)>>),
           <<chunk_index, r2_urls(chunk_index)>>)

\* the except branches and the "segments is None" branch of the first pass
RecordFailed(fc, chunk_index) == Append(fc, <<chunk_index, r2_urls(chunk_index)>>)

\* the except branch of the phase 1 submit loop: log only
SubmitFailed(fc, chunk_index) == fc

\* list.sort(key=lambda s: s["start"]): stable, ascending by start
RECURSIVE InsertByStart(_, _)
InsertByStart(sorted, x) ==
    IF sorted = <<>> THEN <<x>>
    ELSE IF sorted[Len(sorted)].entry.start <= x.entry.start
         THEN Append(sorted, x)
         ELSE Append(InsertByStart(SubSeq(sorted, 1, Len(sorted) - 1), x),
                     sorted[Len(sorted)])

\* variant of SortByStart: the list is returned in arrival order
SortSkipped(list) == list

RECURSIVE SortByStart(_)
SortByStart(list) ==
    IF list = <<>> THEN <<>>
    ELSE InsertByStart(SortByStart(SubSeq(list, 1, Len(list) - 1)),
                       list[Len(list)])

JobChunks(js) == {js[k][1] : k \in 1..Len(js)}
JobSet(js) == {js[k] : k \in 1..Len(js)}

\* lines 395-396: the configuration check
Start ==
    /\ pc = "start"
    /\ pc' = IF configured THEN "submit" ELSE "raised"
    /\ UNCHANGED <<configured, last, n, idx, nextJob, jobs, futures, all_segments,
                   completed, failed_chunks, retry_jobs, returned, submits,
                   polls, res1, res2>>
    /\ UNCHANGED <<pollVars, clipVars, stageVars, auxVars>>

\* phase 1, one iteration of the submit loop
Submit ==
    /\ pc = "submit"
    /\ idx < n
    /\ \E accepted \in BOOLEAN :
         IF accepted
         THEN /\ jobs' = Append(jobs, <<idx, nextJob>>)
              /\ nextJob' = nextJob + 1
              /\ res1' = [res1 EXCEPT ![idx] = Attempt("pending", <<>>)]
              /\ UNCHANGED failed_chunks
         ELSE /\ failed_chunks' = SubmitFailed(failed_chunks, idx)
              /\ res1' = [res1 EXCEPT ![idx] = Attempt("submit_failed", <<>>)]
              /\ UNCHANGED <<jobs, nextJob>>
    /\ submits' = [submits EXCEPT ![idx] = @ + 1]
    /\ idx' = idx + 1
    /\ UNCHANGED <<configured, last, n, pc, futures, all_segments, completed,
                   retry_jobs, returned, polls, res2>>
    /\ UNCHANGED <<pollVars, clipVars, stageVars, auxVars>>

\* variant of NoJobs: the run raises when no job was accepted
NoJobsRaises ==
    /\ pc = "submit"
    /\ idx = n
    /\ jobs = <<>>
    /\ pc' = "raised"
    /\ UNCHANGED <<configured, last, n, idx, nextJob, jobs, futures,
                   all_segments, completed, failed_chunks, retry_jobs, returned,
                   submits, polls, res1, res2>>
    /\ UNCHANGED <<pollVars, clipVars, stageVars, auxVars>>

\* lines 410-412: no job was accepted
NoJobs ==
    /\ pc = "submit"
    /\ idx = n
    /\ jobs = <<>>
    /\ returned' = <<>>
    /\ pc' = "done"
    /\ UNCHANGED <<configured, last, n, idx, nextJob, jobs, futures, all_segments,
                   completed, failed_chunks, retry_jobs, submits, polls,
                   res1, res2>>
    /\ UNCHANGED <<pollVars, clipVars, stageVars, auxVars>>

\* lines 438-442: one poll task per job
StartPolling ==
    /\ pc = "submit"
    /\ idx = n
    /\ jobs # <<>>
    /\ futures' = JobSet(jobs)
    /\ polls' = [i \in Chunks |->
                   IF i \in JobChunks(jobs) THEN polls[i] + 1 ELSE polls[i]]
    /\ pc' = "poll"
    /\ UNCHANGED <<configured, last, n, idx, nextJob, jobs, all_segments, completed,
                   failed_chunks, retry_jobs, returned, submits, res1, res2>>
    /\ UNCHANGED <<pollVars, clipVars, stageVars, auxVars>>

\* where the run goes when the first poll pass is over
AfterFirstPass(fc) == IF fc # <<>> THEN "retry_submit" ELSE "sort"

\* variant of AfterResolve: the retry starts at the first failure
AfterResolveEager(left, fc) ==
    IF fc # <<>> THEN "retry_submit" ELSE IF left = {} THEN "sort" ELSE "poll"

\* the as_completed loop goes on while a future is unresolved; the retry
\* phase is entered only after the with-block has ended
AfterResolve(left, fc) == IF left = {} THEN AfterFirstPass(fc) ELSE "poll"

\* lines 444-485: the body of the as_completed loop for one future
Resolve ==
    /\ pc = "poll"
    /\ \E f \in futures, o \in PollOutcomes :
         LET chunk_index == f[1]
             c == Classify(o)
         IN  /\ futures' = IF c = "raise" THEN {} ELSE futures \ {f}
             /\ IF c = "segments"
                THEN /\ all_segments' = AppendSegments(all_segments, o.segments,
                                                       chunk_index, 1)
                     /\ completed' = completed + 1
                     /\ res1' = [res1 EXCEPT
                                   ![chunk_index] = Attempt("ok", o.segments)]
                     /\ UNCHANGED failed_chunks
                ELSE IF c = "None"
                THEN /\ failed_chunks' = RecordFailed(failed_chunks, chunk_index)
                     /\ res1' = [res1 EXCEPT
                                   ![chunk_index] = Attempt("failed", <<>>)]
                     /\ UNCHANGED <<all_segments, completed>>
                ELSE /\ res1' = [res1 EXCEPT
                                   ![chunk_index] = Attempt("raised", <<>>)]
                     /\ UNCHANGED <<all_segments, completed, failed_chunks>>
             /\ pc' = IF c = "raise" THEN "raised"
                      ELSE AfterResolve(futures', failed_chunks')
             /\ idx' = IF pc' = "retry_submit" THEN 0 ELSE idx
             /\ last' = OutcomeKind(o)
    /\ UNCHANGED <<configured, n, nextJob, jobs, retry_jobs, returned, submits,
                   polls, res2>>
    /\ UNCHANGED <<pollVars, clipVars, stageVars, auxVars>>

\* lines 491-497: one iteration of the retry submit loop
RetrySubmit ==
    /\ pc = "retry_submit"
    /\ idx < Len(failed_chunks)
    /\ LET chunk_index == failed_chunks[idx + 1][1]
       IN  /\ \E accepted \in BOOLEAN :
                IF accepted
                THEN /\ retry_jobs' = Append(retry_jobs, <<chunk_index, nextJob>>)
                     /\ nextJob' = nextJob + 1
                     /\ res2' = [res2 EXCEPT
                                   ![chunk_index] = Attempt("pending", <<>>)]
                ELSE /\ res2' = [res2 EXCEPT
                                   ![chunk_index] = Attempt("submit_failed", <<>>)]
                     /\ UNCHANGED <<retry_jobs, nextJob>>
           /\ submits' = [submits EXCEPT ![chunk_index] = @ + 1]
    /\ idx' = idx + 1
    /\ UNCHANGED <<configured, last, n, pc, jobs, futures, all_segments, completed,
                   failed_chunks, returned, polls, res1>>
    /\ UNCHANGED <<pollVars, clipVars, stageVars, auxVars>>

\* line 499: no retry job was accepted
NoRetryJobs ==
    /\ pc = "retry_submit"
    /\ idx = Len(failed_chunks)
    /\ retry_jobs = <<>>
    /\ pc' = "sort"
    /\ UNCHANGED <<configured, last, n, idx, nextJob, jobs, futures, all_segments,
                   completed, failed_chunks, retry_jobs, returned, submits,
                   polls, res1, res2>>
    /\ UNCHANGED <<pollVars, clipVars, stageVars, auxVars>>

\* lines 500-504: one poll task per retry job
StartRetryPolling ==
    /\ pc = "retry_submit"
    /\ idx = Len(failed_chunks)
    /\ retry_jobs # <<>>
    /\ futures' = JobSet(retry_jobs)
    /\ polls' = [i \in Chunks |->
                   IF i \in JobChunks(retry_jobs) THEN polls[i] + 1 ELSE polls[i]]
    /\ pc' = "retry_poll"
    /\ UNCHANGED <<configured, last, n, idx, nextJob, jobs, all_segments, completed,
                   failed_chunks, retry_jobs, returned, submits, res1, res2>>
    /\ UNCHANGED <<pollVars, clipVars, stageVars, auxVars>>

\* variant of AfterRetryFailure: a failed retry starts another retry round
AfterRetryFailureAgain(left) == IF left = {} THEN "retry_submit" ELSE "retry_poll"

\* variant of AfterRetryFailure: a failed retry ends the run with an error
AfterRetryFailureRaises(left) == "raised"

\* where the run goes when a retry job resolved without success
AfterRetryFailure(left) == IF left = {} THEN "sort" ELSE "retry_poll"

\* lines 505-538: the body of the retry as_completed loop for one future
RetryResolve ==
    /\ pc = "retry_poll"
    /\ \E f \in futures, o \in PollOutcomes :
         LET chunk_index == f[1]
             c == Classify(o)
         IN  /\ futures' = IF c = "raise" THEN {} ELSE futures \ {f}
             /\ IF c = "segments"
                THEN /\ all_segments' = AppendSegments(all_segments, o.segments,
                                                       chunk_index, 2)
                     /\ completed' = completed + 1
                     /\ res2' = [res2 EXCEPT
                                   ![chunk_index] = Attempt("ok", o.segments)]
                     /\ pc' = IF futures' = {} THEN "sort" ELSE "retry_poll"
                ELSE IF c = "None"
                THEN /\ res2' = [res2 EXCEPT
                                   ![chunk_index] = Attempt("failed", <<>>)]
                     /\ pc' = AfterRetryFailure(futures')
                     /\ UNCHANGED <<all_segments, completed>>
                ELSE /\ res2' = [res2 EXCEPT
                                   ![chunk_index] = Attempt("raised", <<>>)]
                     /\ pc' = "raised"
                     /\ UNCHANGED <<all_segments, completed>>
             /\ last' = OutcomeKind(o)
    /\ UNCHANGED <<configured, n, idx, nextJob, jobs, failed_chunks, retry_jobs,
                   returned, submits, polls, res1>>
    /\ UNCHANGED <<pollVars, clipVars, stageVars, auxVars>>

\* lines 540-544: sort in place and return
Return ==
    /\ pc = "sort"
    /\ all_segments' = SortByStart(all_segments)
    /\ returned' = [k \in 1..Len(all_segments) |-> all_segments'[k].entry]
    /\ pc' = "done"
    /\ UNCHANGED <<configured, last, n, idx, nextJob, jobs, futures, completed,
                   failed_chunks, retry_jobs, submits, polls, res1, res2>>
    /\ UNCHANGED <<pollVars, clipVars, stageVars, auxVars>>

Next ==
    \/ Start
    \/ Submit
    \/ NoJobs
    \/ StartPolling
    \/ Resolve
    \/ RetrySubmit
    \/ NoRetryJobs
    \/ StartRetryPolling
    \/ RetryResolve
    \/ Return

Spec == Init /\ [][Next]_vars

\* most chunks in the behaviours whose termination is checked
LiveChunks == 2

LiveInit == Init /\ n <= LiveChunks

\* the main thread always takes its next step, and every poll task it waits
\* for resolves (PollTerminates below): each step of Next that is possible is
\* eventually taken
LiveSpec == LiveInit /\ [][Next]_vars /\ WF_vars(Next)

\* the pipeline at rest, while one of the other functions is looked at
PipelineIdle ==
    /\ configured = TRUE /\ n = 0 /\ pc = "idle" /\ idx = 0 /\ nextJob = 1
    /\ jobs = <<>> /\ futures = {} /\ all_segments = <<>> /\ completed = 0
    /\ failed_chunks = <<>> /\ retry_jobs = <<>> /\ returned = <<>>
    /\ submits = [i \in Chunks |-> 0] /\ polls = [i \in Chunks |-> 0]
    /\ res1 = [i \in Chunks |-> NoAttempt] /\ res2 = [i \in Chunks |-> NoAttempt]
    /\ last = "none"

\* ------------------------------------------------------------------------
\* _poll_runpod_job
\* ------------------------------------------------------------------------
RUNPOD_POLL_INTERVAL == 2
RUNPOD_TIMEOUT == 300

\* seconds one status request can take: requests.get(..., timeout=30)
RequestSeconds == {0, 1, 30}

\* what a status request gives: a status, or "error" when the request or
\* raise_for_status raises
StatusResponses == {"IN_QUEUE", "IN_PROGRESS", "COMPLETED", "FAILED", "error"}

PollInit ==
    /\ PipelineIdle
    /\ ClipIdle
    /\ StagesIdle
    /\ AuxIdle
    /\ poll_pc = "loop"
    /\ elapsed = 0
    /\ data = "none"

\* line 365: the loop condition
WithinTimeout(e) == e < RUNPOD_TIMEOUT

\* lines 365-373: one iteration of the loop
PollQuery ==
    /\ poll_pc = "loop"
    /\ WithinTimeout(elapsed)
    /\ \E d \in RequestSeconds, r \in StatusResponses :
         IF r = "error"
         THEN /\ poll_pc' = "raised"
              /\ data' = "Exception"
              /\ elapsed' = elapsed + d
         ELSE IF r \in {"COMPLETED", "FAILED"}
         THEN /\ poll_pc' = "returned"
              /\ data' = r
              /\ elapsed' = elapsed + d
         ELSE /\ poll_pc' = "loop"
              /\ data' = r
              /\ elapsed' = elapsed + d + RUNPOD_POLL_INTERVAL
    /\ UNCHANGED <<pipelineVars, clipVars, stageVars, auxVars>>

\* line 375: the loop condition failed
PollTimeout ==
    /\ poll_pc = "loop"
    /\ ~WithinTimeout(elapsed)
    /\ poll_pc' = "raised"
    /\ data' = "TimeoutError"
    /\ UNCHANGED <<elapsed, pipelineVars, clipVars, stageVars, auxVars>>

PollNext == PollQuery \/ PollTimeout

\* the thread of the pool that runs the task keeps running
PollSpec == PollInit /\ [][PollNext]_vars /\ WF_vars(PollNext)

\* a poll task resolves: it returns a terminal response or raises
PollTerminates == <>(poll_pc \in {"returned", "raised"})

\* what a poll task resolved with is a terminal response, a request failure,
\* or a timeout after RUNPOD_TIMEOUT seconds of non-terminal responses
PollOutcomeSound ==
    /\ poll_pc = "returned" => data \in {"COMPLETED", "FAILED"}
    /\ poll_pc = "raised" =>
         \/ data = "Exception"
         \/ data = "TimeoutError" /\ elapsed >= RUNPOD_TIMEOUT
    /\ poll_pc = "loop" => data \in {"none", "IN_QUEUE", "IN_PROGRESS"}

\* ------------------------------------------------------------------------
\* clip_and_upload_words: the transcripts it is given
\* ------------------------------------------------------------------------
\* most segments of a transcript
MaxSegments == 2

\* the float that holds a timestamp of the transcript: transcribe_chunks
\* rounded it to hundredths of a second (round(x + offset, 2))
Float(ms) == FromHundredths(ms \div 10)

Word(text, start, end) == [word |-> text, start |-> start, end |-> end]

\* word occurrences: times in ms, global
ClipWords ==
    { Word(<<"h", "i">>, 1000, 1300),
      Word(<<"h", "i">>, 40000, 40500),
      Word(<<"h", "i">>, 1000, 1200),
      Word(<<" ", "h", "i">>, 30000, 30500),
      Word(<<"H", "i">>, 2010, 2510),
      Word(<<"a">>, 5000, 6000),
      Word(<<" ">>, 6000, 7000),
      Word(<<"o", "k">>, 0, 200),
      Word(<<"o", "k">>, 1000, 1190),
      Word(<<"o", "k">>, 95000, 95600) }

\* segments: with one word, with two words, with an empty word list and
\* without the "words" key (a segment for which Whisper gave no words)
ClipSegments ==
    {[start |-> w.start, words |-> <<w>>] : w \in ClipWords}
    \cup { [start |-> 1000,
            words |-> << Word(<<"h", "i">>, 1000, 1200),
                         Word(<<"h", "i", " ">>, 1500, 1900) >>],
           [start |-> 2010,
            words |-> << Word(<<"H", "i">>, 2010, 2510),
                         Word(<<"o", "k">>, 2600, 2900) >>],
           [start |-> 0, words |-> <<>>],
           [start |-> 2000] }

\* transcribe_chunks returns the segments sorted by start
Transcripts ==
    {t \in UNION {[1..k -> ClipSegments] : k \in 0..MaxSegments} :
        \A k \in 1..(Len(t) - 1) : t[k].start <= t[k + 1].start}

\* seg.get("words", [])
WordsOf(seg) == IF "words" \in DOMAIN seg THEN seg.words ELSE <<>>

\* the words of the segments from segment k on, in document order
RECURSIVE AllWordsFrom(_, _)
AllWordsFrom(segs, k) ==
    IF k > Len(segs) THEN <<>> ELSE WordsOf(segs[k]) \o AllWordsFrom(segs, k + 1)

AllWords(segs) == AllWordsFrom(segs, 1)

\* ------------------------------------------------------------------------
\* clip_and_upload_words: collecting the words (lines 650-661)
\* ------------------------------------------------------------------------
\* the text of a word with its case changed, and as it stands
LowerChar(c) == IF c = "H" THEN "h" ELSE c
WordTextLower(w) == LET t == Strip(w.word) IN [k \in 1..Len(t) |-> LowerChar(t[k])]
WordTextRaw(w) == w.word

\* line 654: text = w["word"].strip()
WordText(w) == Strip(w.word)

\* the literal 0.2 of line 656
MinDuration == FromHundredths(20)

\* line 655: duration = w["end"] - w["start"]
Duration(w) == FloatSub(Float(w.end), Float(w.start))

\* line 656, without the test on seen
Keeps(w) ==
    /\ WordText(w) # <<>>
    /\ Len(WordText(w)) > 1
    /\ SignedGeq(Duration(w), MinDuration)

\* text in seen
InSeen(sn, text) == \E k \in 1..Len(sn) : sn[k].text = text

\* lines 652-657: the loop over the words from word k on
RECURSIVE CollectFrom(_, _, _)
CollectFrom(words, k, sn) ==
    IF k > Len(words) THEN sn
    ELSE LET w == words[k]
         IN  CollectFrom(words, k + 1,
                         IF Keeps(w) /\ ~InSeen(sn, WordText(w))
                         THEN Append(sn, [text |-> WordText(w), w |-> w])
                         ELSE sn)

CollectSeen(segs) == CollectFrom(AllWords(segs), 1, <<>>)

\* ------------------------------------------------------------------------
\* clip_and_upload_words: clipping and uploading (lines 663-729)
\* ------------------------------------------------------------------------
max_workers == 8

ClipInit ==
    /\ PipelineIdle
    /\ PollIdle
    /\ StagesIdle
    /\ AuxIdle
    /\ transcript \in Transcripts
    /\ chunk_paths \in 1..MaxChunks
    /\ clip_pc = "collect"
    /\ seen = <<>>
    /\ clip_idx = 0
    /\ clip_tasks = <<>>
    /\ word_clips = <<>>
    /\ uploads = <<>>
    /\ consumed = 0
    /\ result = <<>>
    /\ order = <<>>

\* lines 651-661: collect the words; nothing to clip returns {}
Collect ==
    /\ clip_pc = "collect"
    /\ seen' = CollectSeen(transcript)
    /\ clip_pc' = IF seen' = <<>> THEN "done" ELSE "clip"
    /\ clip_idx' = 1
    /\ UNCHANGED <<transcript, chunk_paths, clip_tasks, word_clips, uploads,
                   consumed, result, order>>
    /\ UNCHANGED <<pipelineVars, pollVars, stageVars, auxVars>>

\* line 672: min(int(w["start"] // chunk_seconds), len(chunk_paths) - 1)
ChunkIdx(w, nchunks) ==
    LET f == FloorDivInt(Float(w.start), chunk_seconds)
    IN  IF f < nchunks - 1 THEN f ELSE nchunks - 1

\* lines 673-674: w["start"] - (chunk_idx * chunk_seconds), and the same of
\* w["end"]
LocalTime(t, chunk_idx) == FloatSub(Float(t), FromInt(chunk_idx * chunk_seconds))

\* line 681: int(local_start * 1000), int(local_end * 1000)
SliceMs(local) ==
    IF local.neg THEN 0 - Trunc(FloatMulInt(local.mag, 1000))
    ELSE Trunc(FloatMulInt(local.mag, 1000))

\* lines 689-693: the key holds the hash of "text:start"
R2Key(text, w) == <<"words", text, w.start>>

\* line 705: CLOUDFLARE_WORKER_URL followed by the path the worker returned
\* for the key
FullUrl(r2_key) == <<"http", r2_key>>

\* v.startswith("http")
StartsWithHttp(v) == v[1] = "http"

\* lines 670-698: one iteration of the clipping loop; loading the chunk or
\* exporting the clip may raise, which is logged
Clip ==
    /\ clip_pc = "clip"
    /\ clip_idx <= Len(seen)
    /\ LET text == seen[clip_idx].text
           w == seen[clip_idx].w
           chunk_idx == ChunkIdx(w, chunk_paths)
           local_start == LocalTime(w.start, chunk_idx)
           local_end == LocalTime(w.end, chunk_idx)
           r2_key == R2Key(text, w)
       IN  \E ok \in BOOLEAN :
             IF ok
             THEN /\ clip_tasks' = Append(clip_tasks,
                        [r2_key |-> r2_key, text |-> text, w |-> w,
                         chunk_idx |-> chunk_idx, from |-> SliceMs(local_start),
                         to |-> SliceMs(local_end)])
                  /\ word_clips' = Append(word_clips, [text |-> text, value |-> r2_key])
             ELSE UNCHANGED <<clip_tasks, word_clips>>
    /\ clip_idx' = clip_idx + 1
    /\ UNCHANGED <<transcript, chunk_paths, clip_pc, seen, uploads, consumed,
                   result, order>>
    /\ UNCHANGED <<pipelineVars, pollVars, stageVars, auxVars>>

\* lines 715-716: the clips are handed to the pool
StartUploads ==
    /\ clip_pc = "clip"
    /\ clip_idx > Len(seen)
    /\ clip_pc' = "upload"
    /\ uploads' = [k \in 1..Len(clip_tasks) |-> "pending"]
    /\ UNCHANGED <<transcript, chunk_paths, seen, clip_idx, clip_tasks,
                   word_clips, consumed, result, order>>
    /\ UNCHANGED <<pipelineVars, pollVars, stageVars, auxVars>>

\* lines 701-712: upload_clip of task k ends, with the URL or with None; the
\* pool runs the tasks in order, at most max_workers at a time
UploadFinish(k) ==
    /\ clip_pc = "upload"
    /\ uploads[k] = "pending"
    /\ Cardinality({j \in 1..(k - 1) : uploads[j] = "pending"}) < max_workers
    /\ \E outcome \in {"ok", "failed"} : uploads' = [uploads EXCEPT ![k] = outcome]
    /\ order' = Append(order, k)
    /\ UNCHANGED <<transcript, chunk_paths, clip_pc, seen, clip_idx, clip_tasks,
                   word_clips, consumed, result>>
    /\ UNCHANGED <<pipelineVars, pollVars, stageVars, auxVars>>

\* the first entry still holding a key gets the URL, whichever key it is
ApplyResultUnkeyed(wc, r2_key, full_url) ==
    LET S == {k \in 1..Len(wc) : ~StartsWithHttp(wc[k].value)}
    IN  IF S = {} THEN wc
        ELSE LET k == CHOOSE k \in S : \A j \in S : k <= j
             IN  [wc EXCEPT ![k].value = full_url]

\* lines 719-723: the first entry whose value is the key gets the URL
ApplyResult(wc, r2_key, full_url) ==
    LET S == {k \in 1..Len(wc) : wc[k].value = r2_key}
    IN  IF S = {} THEN wc
        ELSE LET k == CHOOSE k \in S : \A j \in S : k <= j
             IN  [wc EXCEPT ![k].value = full_url]

\* lines 716-723: the loop takes the next result of executor.map, which
\* yields the results in the order of the tasks
Consume ==
    /\ clip_pc = "upload"
    /\ consumed < Len(clip_tasks)
    /\ uploads[consumed + 1] # "pending"
    /\ consumed' = consumed + 1
    /\ word_clips' =
         IF uploads[consumed + 1] = "ok"
         THEN ApplyResult(word_clips, clip_tasks[consumed + 1].r2_key,
                          FullUrl(clip_tasks[consumed + 1].r2_key))
         ELSE word_clips
    /\ UNCHANGED <<transcript, chunk_paths, clip_pc, seen, clip_idx, clip_tasks,
                   uploads, result, order>>
    /\ UNCHANGED <<pipelineVars, pollVars, stageVars, auxVars>>

\* nothing is removed
FilterNothing(wc) == wc

\* line 726: the entries whose value starts with "http"
FilterUploaded(wc) == SelectSeq(wc, LAMBDA e : StartsWithHttp(e.value))

\* lines 726-729
Finish ==
    /\ clip_pc = "upload"
    /\ consumed = Len(clip_tasks)
    /\ word_clips' = FilterUploaded(word_clips)
    /\ result' = word_clips'
    /\ clip_pc' = "done"
    /\ UNCHANGED <<transcript, chunk_paths, seen, clip_idx, clip_tasks, uploads,
                   consumed, order>>
    /\ UNCHANGED <<pipelineVars, pollVars, stageVars, auxVars>>

ClipNext ==
    \/ Collect
    \/ Clip
    \/ StartUploads
    \/ \E k \in 1..Len(clip_tasks) : UploadFinish(k)
    \/ Consume
    \/ Finish

ClipSpec == ClipInit /\ [][ClipNext]_vars

\* ------------------------------------------------------------------------
\* chunk_audio
\* ------------------------------------------------------------------------
\* longest source of the sweep, in quarters of a second
MaxQuarters == 13

\* chunk lengths in seconds
ChunkLengths == {1, 2, chunk_seconds}

\* len(audio): the sweep, and a source of 75 seconds
TotalDurations == {250 * q : q \in 0..MaxQuarters} \cup {75000}

Min(a, b) == IF a <= b THEN a ELSE b

\* audio[from : to]: pydub clamps both ends of a slice to the audio
Slice(from, to, total) == [from |-> Min(from, total), to |-> Min(to, total)]

\* variant of MoreChunks: the loop goes on while a whole chunk is left
MoreWholeChunks(off, len, total) == off + len <= total

\* line 242: while offset < total_ms
MoreChunks(off, len, total) == off < total

\* lines 231-240
ChunkInit ==
    /\ chunk_pc = "loop"
    /\ total_ms \in TotalDurations
    /\ chunk_ms \in {1000 * l : l \in ChunkLengths}
    /\ cut_offset = 0
    /\ chunk_files = <<>>
    /\ PipelineIdle
    /\ PollIdle
    /\ ClipIdle
    /\ VideoIdle
    /\ UploadIdle
    /\ AuxIdle

\* lines 242-248: one pass of the loop; the export writes the file or raises
ChunkExport ==
    /\ chunk_pc = "loop"
    /\ MoreChunks(cut_offset, chunk_ms, total_ms)
    /\ \E written \in BOOLEAN :
         IF written
         THEN /\ chunk_files' = Append(chunk_files,
                                  Slice(cut_offset, cut_offset + chunk_ms, total_ms))
              /\ cut_offset' = cut_offset + chunk_ms
              /\ chunk_pc' = chunk_pc
         ELSE /\ chunk_pc' = "raised"
              /\ UNCHANGED <<chunk_files, cut_offset>>
    /\ UNCHANGED <<total_ms, chunk_ms>>
    /\ UNCHANGED <<pipelineVars, pollVars, clipVars, videoVars, uploadVars, auxVars>>

\* lines 250-251: the loop ends and the paths are returned
ChunkReturn ==
    /\ chunk_pc = "loop"
    /\ ~MoreChunks(cut_offset, chunk_ms, total_ms)
    /\ chunk_pc' = "done"
    /\ UNCHANGED <<total_ms, chunk_ms, cut_offset, chunk_files>>
    /\ UNCHANGED <<pipelineVars, pollVars, clipVars, videoVars, uploadVars, auxVars>>

ChunkNext ==
    \/ ChunkExport
    \/ ChunkReturn

\* the loop is sequential code: its next step is always taken
ChunkSpec == ChunkInit /\ [][ChunkNext]_vars /\ WF_vars(ChunkNext)

\* ------------------------------------------------------------------------
\* upload_chunks_to_r2, called with the paths chunk_audio returned
\* ------------------------------------------------------------------------
\* key of the i-th path: f"{video_id}/chunk_{i:03d}.wav"
ChunkKey(i) == i

\* CLOUDFLARE_WORKER_URL followed by the URL the worker gives the key
ChunkUrl(key) == <<"chunk", key>>

\* variant of OnUploadFailure: the failure is logged and the loop goes on
OnUploadFailureSkip == "skip"

\* lines 279-281: the failure is logged and raised as RuntimeError
OnUploadFailure == "raise"

\* lines 269-271, after chunk_audio returned
UploadBegin ==
    /\ chunk_pc = "done"
    /\ upload_pc = "idle"
    /\ upload_pc' = "loop"
    /\ UNCHANGED <<upload_i, urls, upload_result, stored>>
    /\ UNCHANGED <<pipelineVars, pollVars, clipVars, videoVars, chunkVars, auxVars>>

\* lines 272-281: one pass of the loop; upload_to_r2 returns or raises
UploadOne ==
    /\ upload_pc = "loop"
    /\ upload_i < Len(chunk_files)
    /\ \E uploaded \in BOOLEAN :
         IF uploaded
         THEN /\ stored' = Append(stored, [chunk |-> upload_i,
                                           key |-> ChunkKey(upload_i)])
              /\ urls' = Append(urls, ChunkUrl(ChunkKey(upload_i)))
              /\ upload_i' = upload_i + 1
              /\ upload_pc' = upload_pc
         ELSE IF OnUploadFailure = "raise"
         THEN /\ upload_pc' = "raised"
              /\ UNCHANGED <<stored, urls, upload_i>>
         ELSE /\ upload_i' = upload_i + 1
              /\ UNCHANGED <<stored, urls, upload_pc>>
    /\ UNCHANGED upload_result
    /\ UNCHANGED <<pipelineVars, pollVars, clipVars, videoVars, chunkVars, auxVars>>

\* line 283
UploadReturn ==
    /\ upload_pc = "loop"
    /\ upload_i = Len(chunk_files)
    /\ upload_result' = <<urls>>
    /\ upload_pc' = "done"
    /\ UNCHANGED <<upload_i, urls, stored>>
    /\ UNCHANGED <<pipelineVars, pollVars, clipVars, videoVars, chunkVars, auxVars>>

UploadNext ==
    \/ UploadBegin
    \/ UploadOne
    \/ UploadReturn

\* process_video lines 783-790: chunk, then upload
SourceNext ==
    \/ ChunkNext
    \/ UploadNext

SourceSpec == ChunkInit /\ [][SourceNext]_vars

\* ------------------------------------------------------------------------
\* A source of 75 seconds from chunk_audio to the list transcribe_chunks
\* returns
\* ------------------------------------------------------------------------
EndToEndInit ==
    /\ ChunkInit
    /\ total_ms = 75000
    /\ chunk_ms = 1000 * chunk_seconds

\* process_video lines 793-798: transcribe_chunks is called with the URLs
\* upload_chunks_to_r2 returned
TranscribeBegin ==
    /\ upload_pc = "done"
    /\ pc = "idle"
    /\ pc' = "start"
    /\ n' = Len(upload_result[1])
    /\ UNCHANGED <<configured, last, idx, nextJob, jobs, futures, all_segments,
                   completed, failed_chunks, retry_jobs, returned, submits,
                   polls, res1, res2>>
    /\ UNCHANGED <<pollVars, clipVars, stageVars, auxVars>>

EndToEndNext ==
    \/ SourceNext
    \/ TranscribeBegin
    \/ Next

EndToEndSpec == EndToEndInit /\ [][EndToEndNext]_vars

\* ------------------------------------------------------------------------
\* process_video
\* ------------------------------------------------------------------------
\* a Whisper output whose segments hold no speech
RawBlank == << [start |-> 0, end |-> 1000, text |-> <<" ">>, words |-> <<>>],
               [start |-> 1000, end |-> 2000, text |-> <<" ">>, words |-> <<>>] >>

\* lists transcribe_chunks returns for a source of one chunk
VideoTranscripts ==
    {[k \in 1..Len(segs) |-> Entry(segs[k], Offset(0))] :
        segs \in {HandlerSegments(raw) : raw \in RawResults \cup {RawBlank}}}

\* dicts clip_and_upload_words returns
ClipMaps == {<<>>, << <<"h", "i">> >>}

\* s["text"] for s in segments
Texts(segments) == [k \in 1..Len(segments) |-> segments[k].text]

\* variant of JoinFrom: the texts follow each other without a separator
RECURSIVE JoinFromNoSeparator(_, _)
JoinFromNoSeparator(texts, k) ==
    IF k > Len(texts) THEN <<>>
    ELSE texts[k] \o JoinFromNoSeparator(texts, k + 1)

\* " ".join(...) from the k-th text on
RECURSIVE JoinFrom(_, _)
JoinFrom(texts, k) ==
    IF k > Len(texts) THEN <<>>
    ELSE IF k = Len(texts) THEN texts[k]
    ELSE texts[k] \o <<" ">> \o JoinFrom(texts, k + 1)

Join(texts) == JoinFrom(texts, 1)

\* the text the correction service answers with: words marked in brackets
Corrected(text) == <<"[">> \o text \o <<"]">>

\* variant of CorrectTranscription: the service is asked whatever the key
CorrectTranscriptionAlways(text, key) ==
    [text |-> Corrected(text), requests |-> 1]

\* correct_transcription when the service answers: the text it returns and
\* the requests it makes
CorrectTranscription(text, key) ==
    IF ~key THEN [text |-> text, requests |-> 0]
    ELSE [text |-> Corrected(text), requests |-> 1]

\* variant of EmitEvent: a failure of the sink is raised to the caller
EmitEventRaises(sink_ok) == IF sink_ok THEN "returned" ELSE "raised"

\* emit_event: the post is inside try/except Exception
EmitEvent(sink_ok) == "returned"

Lost(sink_ok) == IF sink_ok THEN 0 ELSE 1

\* variant of Cleanup: the directory is removed on the success path only
CleanupOnSuccess(dir, failed) == IF failed THEN dir ELSE "purged"

\* the finally clause: rmtree if the directory exists
Cleanup(dir, failed) == IF dir = "exists" THEN "purged" ELSE dir

\* an exception leaves the try block: control enters the except clause
Fail(stage) == video_pc' = "except" /\ error' = stage

Proceed(to) == video_pc' = to /\ error' = error

VideoInit ==
    /\ video_pc = "extract" /\ work_dir = "none" /\ api_key \in BOOLEAN
    /\ locals = NoLocals /\ cache = <<>>
    /\ video_result = <<>> /\ error = "none" /\ requests_made = 0
    /\ cache_failed = FALSE /\ sink_lost = 0
    /\ PipelineIdle
    /\ PollIdle
    /\ ClipIdle
    /\ ChunkIdle
    /\ UploadIdle
    /\ AuxIdle

\* lines 763-767: extract_video_id raises on a URL without a video id;
\* otherwise mkdtemp creates the work directory
ExtractId ==
    /\ video_pc = "extract"
    /\ \E valid \in BOOLEAN :
         IF valid
         THEN /\ work_dir' = "exists"
              /\ Proceed("download")
         ELSE /\ work_dir' = work_dir
              /\ video_pc' = "raised"
              /\ error' = "extract"
    /\ UNCHANGED <<api_key, locals, cache, video_result, requests_made,
                   cache_failed, sink_lost>>
    /\ UNCHANGED <<pipelineVars, pollVars, clipVars, chunkVars, uploadVars, auxVars>>

\* lines 771-774
Download ==
    /\ video_pc = "download"
    /\ \E sink_ok \in BOOLEAN, ok \in BOOLEAN :
         /\ sink_lost' = sink_lost + Lost(sink_ok)
         /\ IF EmitEvent(sink_ok) = "raised" THEN Fail("emit")
            ELSE IF ok THEN Proceed("probe")
            ELSE Fail("download")
    /\ UNCHANGED <<work_dir, api_key, locals, cache, video_result,
                   requests_made, cache_failed>>
    /\ UNCHANGED <<pipelineVars, pollVars, clipVars, chunkVars, uploadVars, auxVars>>

\* line 777: AudioSegment.from_file(audio_path).duration_seconds
ProbeDuration ==
    /\ video_pc = "probe"
    /\ \E ok \in BOOLEAN : IF ok THEN Proceed("chunk") ELSE Fail("probe")
    /\ UNCHANGED <<work_dir, api_key, locals, cache, video_result,
                   requests_made, cache_failed, sink_lost>>
    /\ UNCHANGED <<pipelineVars, pollVars, clipVars, chunkVars, uploadVars, auxVars>>

\* lines 780-783
ChunkStep ==
    /\ video_pc = "chunk"
    /\ \E sink_ok \in BOOLEAN, ok \in BOOLEAN, paths \in {0, 1} :
         /\ sink_lost' = sink_lost + Lost(sink_ok)
         /\ IF EmitEvent(sink_ok) = "raised"
            THEN Fail("emit") /\ locals' = locals
            ELSE IF ok
            THEN Proceed("upload") /\ locals' = [locals EXCEPT !.chunk_paths = paths]
            ELSE Fail("chunk") /\ locals' = locals
    /\ UNCHANGED <<work_dir, api_key, cache, video_result, requests_made,
                   cache_failed>>
    /\ UNCHANGED <<pipelineVars, pollVars, clipVars, chunkVars, uploadVars, auxVars>>

\* lines 786-790
UploadStep ==
    /\ video_pc = "upload"
    /\ \E sink_ok \in BOOLEAN, ok \in BOOLEAN :
         /\ sink_lost' = sink_lost + Lost(sink_ok)
         /\ IF EmitEvent(sink_ok) = "raised"
            THEN Fail("emit") /\ locals' = locals
            ELSE IF ok
            THEN /\ Proceed("transcribe")
                 /\ locals' = [locals EXCEPT !.r2_urls = locals.chunk_paths]
            ELSE Fail("upload") /\ locals' = locals
    /\ UNCHANGED <<work_dir, api_key, cache, video_result, requests_made,
                   cache_failed>>
    /\ UNCHANGED <<pipelineVars, pollVars, clipVars, chunkVars, uploadVars, auxVars>>

\* lines 793-799: transcribe_chunks returns a list or raises (lines 395-396);
\* sink_ok is the emission of line 794, during the ones of lines 414 and 483
TranscribeStep ==
    /\ video_pc = "transcribe"
    /\ \E sink_ok \in BOOLEAN, during \in BOOLEAN, ok \in BOOLEAN,
          segs \in VideoTranscripts :
         /\ locals.r2_urls = 0 => segs = <<>>
         /\ sink_lost' = sink_lost + Lost(sink_ok) + Lost(during)
         /\ IF EmitEvent(sink_ok) = "raised" \/ EmitEvent(during) = "raised"
            THEN Fail("emit") /\ locals' = locals
            ELSE IF ok
            THEN /\ Proceed("clip")
                 /\ locals' = [locals EXCEPT !.segments = segs,
                                             !.transcript = Join(Texts(segs))]
            ELSE Fail("transcribe") /\ locals' = locals
    /\ UNCHANGED <<work_dir, api_key, cache, video_result, requests_made,
                   cache_failed>>
    /\ UNCHANGED <<pipelineVars, pollVars, clipVars, chunkVars, uploadVars, auxVars>>

\* lines 802-807: clip_and_upload_words catches the failures of its clips
ClipStep ==
    /\ video_pc = "clip"
    /\ IF locals.segments # <<>> /\ locals.chunk_paths > 0
       THEN \E sink_ok \in BOOLEAN, clips \in ClipMaps :
              /\ sink_lost' = sink_lost + Lost(sink_ok)
              /\ IF EmitEvent(sink_ok) = "raised"
                 THEN Fail("emit") /\ locals' = locals
                 ELSE /\ Proceed("correct")
                      /\ locals' = [locals EXCEPT !.word_clips = clips]
       ELSE /\ Proceed("correct")
            /\ locals' = [locals EXCEPT !.word_clips = <<>>]
            /\ sink_lost' = sink_lost
    /\ UNCHANGED <<work_dir, api_key, cache, video_result, requests_made,
                   cache_failed>>
    /\ UNCHANGED <<pipelineVars, pollVars, clipVars, chunkVars, uploadVars, auxVars>>

\* lines 810-818: the request of correct_transcription (lines 613-618) is
\* answered or raises
CorrectStep ==
    /\ video_pc = "correct"
    /\ IF Strip(locals.transcript) # <<>>
       THEN \E sink_ok \in BOOLEAN, answered \in BOOLEAN :
              LET c == CorrectTranscription(locals.transcript, api_key)
              IN  /\ sink_lost' = sink_lost + Lost(sink_ok)
                  /\ IF EmitEvent(sink_ok) = "raised"
                     THEN /\ Fail("emit")
                          /\ UNCHANGED <<locals, requests_made>>
                     ELSE /\ requests_made' = requests_made + c.requests
                          /\ IF c.requests > 0 /\ ~answered
                             THEN Fail("correct") /\ locals' = locals
                             ELSE /\ Proceed("cache")
                                  /\ locals' = [locals EXCEPT
                                                  !.corrected_transcript = c.text]
       ELSE /\ Proceed("cache")
            /\ locals' = [locals EXCEPT
                            !.corrected_transcript = locals.transcript]
            /\ UNCHANGED <<requests_made, sink_lost>>
    /\ UNCHANGED <<work_dir, api_key, cache, video_result, cache_failed>>
    /\ UNCHANGED <<pipelineVars, pollVars, clipVars, chunkVars, uploadVars, auxVars>>

\* the payload handed to set_cache
Payload(l) ==
    [transcript |-> l.transcript, corrected |-> l.corrected_transcript,
     segments |-> l.segments, word_clips |-> l.word_clips,
     audio_urls |-> l.r2_urls]

\* variant of OnCacheFailure: the exception of set_cache propagates
OnCacheFailureRaise == "raised"

\* lines 833-834: except Exception: logger.debug
OnCacheFailure == "logged"

\* lines 821-834
CacheStep ==
    /\ video_pc = "cache"
    /\ \E written \in BOOLEAN :
         /\ cache_failed' = ~written
         /\ cache' = IF written THEN <<Payload(locals)>> ELSE cache
         /\ IF ~written /\ OnCacheFailure = "raised"
            THEN Fail("cache")
            ELSE Proceed("complete")
    /\ UNCHANGED <<work_dir, api_key, locals, video_result, requests_made,
                   sink_lost>>
    /\ UNCHANGED <<pipelineVars, pollVars, clipVars, chunkVars, uploadVars, auxVars>>

\* the result dict of lines 837-846
Result(l) ==
    [transcript |-> l.transcript,
     corrected_transcript |-> l.corrected_transcript,
     audio_urls |-> l.r2_urls, segments |-> l.segments,
     word_clips |-> l.word_clips]

\* lines 837-856, then the finally clause
Complete ==
    /\ video_pc = "complete"
    /\ \E sink_ok \in BOOLEAN :
         /\ sink_lost' = sink_lost + Lost(sink_ok)
         /\ IF EmitEvent(sink_ok) = "raised"
            THEN Fail("emit") /\ UNCHANGED <<video_result, work_dir>>
            ELSE /\ video_result' = <<Result(locals)>>
                 /\ work_dir' = Cleanup(work_dir, FALSE)
                 /\ Proceed("returned")
    /\ UNCHANGED <<api_key, locals, cache, requests_made, cache_failed>>
    /\ UNCHANGED <<pipelineVars, pollVars, clipVars, chunkVars, uploadVars, auxVars>>

\* lines 858-869: the except clause emits and re-raises, then the finally
\* clause; an exception of the emission would replace the one being handled
Except ==
    /\ video_pc = "except"
    /\ \E sink_ok \in BOOLEAN :
         /\ sink_lost' = sink_lost + Lost(sink_ok)
         /\ error' = IF EmitEvent(sink_ok) = "raised" THEN "emit" ELSE error
    /\ work_dir' = Cleanup(work_dir, TRUE)
    /\ video_pc' = "raised"
    /\ UNCHANGED <<api_key, locals, cache, video_result, requests_made,
                   cache_failed>>
    /\ UNCHANGED <<pipelineVars, pollVars, clipVars, chunkVars, uploadVars, auxVars>>

VideoNext ==
    \/ ExtractId
    \/ Download
    \/ ProbeDuration
    \/ ChunkStep
    \/ UploadStep
    \/ TranscribeStep
    \/ ClipStep
    \/ CorrectStep
    \/ CacheStep
    \/ Complete
    \/ Except

VideoSpec == VideoInit /\ [][VideoNext]_vars

\* ------------------------------------------------------------------------
\* resolve_whisper_language and the contact language process_video names
\* ------------------------------------------------------------------------
\* longest contact_languages list
MaxLangs == 2

\* language names: three with an entry in CONTACT_LANG_TO_WHISPER, one without
LanguageNames == {"Korean", "Japanese", "English", "Jejueo"}

\* CONTACT_LANG_TO_WHISPER.get(lang): the code, or <<>> for None
ContactLangToWhisper(lang) ==
    IF lang = "Korean" THEN <<"k", "o">>
    ELSE IF lang = "Japanese" THEN <<"j", "a">>
    ELSE IF lang = "English" THEN <<"e", "n">>
    ELSE <<>>

\* values of language_code
LanguageCodes ==
    {<<"k", "o">>, <<"e", "n">>, <<"j", "j", "e">>, <<"u", "n", "d">>, <<>>}

LanguageLists ==
    UNION {[1..m -> LanguageNames] : m \in 0..MaxLangs}

\* line 92
Fallback(code) == IF Len(code) = 2 THEN code ELSE <<"e", "n">>

\* variant of ResolveWhisperLanguage: only the first entry is looked up
ResolveFirstEntry(langs, code) ==
    IF langs # <<>> /\ ContactLangToWhisper(langs[1]) # <<>>
    THEN ContactLangToWhisper(langs[1])
    ELSE Fallback(code)

\* lines 86-89: the loop from the k-th entry on
RECURSIVE ResolveFrom(_, _, _)
ResolveFrom(langs, k, code) ==
    IF k > Len(langs) THEN Fallback(code)
    ELSE IF ContactLangToWhisper(langs[k]) # <<>>
         THEN ContactLangToWhisper(langs[k])
         ELSE ResolveFrom(langs, k + 1, code)

\* resolve_whisper_language
ResolveWhisperLanguage(langs, code) == ResolveFrom(langs, 1, code)

LangInit ==
    /\ lang_pc = "resolve"
    /\ contact_languages \in LanguageLists
    /\ language_code \in LanguageCodes
    /\ whisper_lang = <<>>
    /\ contact_lang_name = ""
    /\ PipelineIdle
    /\ PollIdle
    /\ ClipIdle
    /\ StagesIdle
    /\ ServerIdle
    /\ HandlerIdle
    /\ AgentIdle

\* process_video line 793
ResolveLanguage ==
    /\ lang_pc = "resolve"
    /\ whisper_lang' = ResolveWhisperLanguage(contact_languages, language_code)
    /\ lang_pc' = "name"
    /\ UNCHANGED <<contact_languages, language_code, contact_lang_name>>
    /\ UNCHANGED exceptLang

\* process_video line 811
NameContactLanguage ==
    /\ lang_pc = "name"
    /\ contact_lang_name' = IF contact_languages # <<>>
                            THEN contact_languages[1]
                            ELSE "English"
    /\ lang_pc' = "done"
    /\ UNCHANGED <<contact_languages, language_code, whisper_lang>>
    /\ UNCHANGED exceptLang

LangNext ==
    \/ ResolveLanguage
    \/ NameContactLanguage

LangSpec == LangInit /\ [][LangNext]_vars

\* ------------------------------------------------------------------------
\* handle_transcribe (the /transcribe endpoint) and _runpod_request
\* ------------------------------------------------------------------------
\* answers of /runsync and /status: the status, and the "output" value of a
\* job that ended
BackendAnswers ==
    [exc : {"none"}, status : {"COMPLETED"}, output : {"dict", "null", "absent"}]
    \cup [exc : {"none"}, status : {"FAILED", "IN_QUEUE", "IN_PROGRESS"},
          output : {"absent"}]

\* line 322: a status request answers at once or after its timeout of 30 s
StatusRequestSeconds == {0, 30}

\* _runpod_request raised
Raised(kind) == [exc |-> kind, status |-> "none", output |-> "none"]

\* variant of TranscribeStatus: without the clause that re-raises an
\* HTTPException, the generic clause turns the 502 into a 500
TranscribeStatusGeneric(o) ==
    IF o.exc = "TimeoutError" THEN 504
    ELSE IF o.exc # "none" THEN 500
    ELSE IF o.status = "FAILED" THEN 500
    ELSE IF o.output = "null" THEN 500
    ELSE 200

\* lines 112-133: the status of the response, given how _runpod_request
\* ended; output.get on a null output raises AttributeError
TranscribeStatus(o) ==
    IF o.exc = "TimeoutError" THEN 504
    ELSE IF o.exc # "none" THEN 500
    ELSE IF o.status = "FAILED" THEN 502
    ELSE IF o.output = "null" THEN 500
    ELSE 200

ServerInit ==
    /\ srv_pc = "check"
    /\ srv_configured \in BOOLEAN
    /\ srv_elapsed = 0
    /\ srv_outcome = NoOutcome
    /\ http_status = 0
    /\ backend_requests = 0
    /\ PipelineIdle
    /\ PollIdle
    /\ ClipIdle
    /\ StagesIdle
    /\ LangIdle
    /\ HandlerIdle
    /\ AgentIdle

\* _runpod_request returns or raises and handle_transcribe answers
Respond(o) ==
    /\ srv_outcome' = o
    /\ http_status' = TranscribeStatus(o)
    /\ srv_pc' = "responded"

\* lines 106-110
CheckConfig ==
    /\ srv_pc = "check"
    /\ IF srv_configured
       THEN srv_pc' = "runsync" /\ http_status' = http_status
       ELSE srv_pc' = "responded" /\ http_status' = 503
    /\ UNCHANGED <<srv_configured, srv_elapsed, srv_outcome, backend_requests>>
    /\ UNCHANGED exceptServer

\* lines 305-319: the /runsync request raises, or answers with a finished
\* job, without a job id, or with a job to poll
RunSync ==
    /\ srv_pc = "runsync"
    /\ backend_requests' = backend_requests + 1
    /\ \E failed \in BOOLEAN, a \in BackendAnswers, has_id \in BOOLEAN :
         IF failed THEN Respond(Raised("Exception"))
         ELSE IF a.status = "COMPLETED" \/ ~has_id THEN Respond(a)
         ELSE /\ srv_pc' = "poll"
              /\ UNCHANGED <<srv_outcome, http_status>>
    /\ UNCHANGED <<srv_configured, srv_elapsed>>
    /\ UNCHANGED exceptServer

\* lines 321-331: one pass of the polling loop; the request takes d seconds
PollStatus ==
    /\ srv_pc = "poll"
    /\ srv_elapsed < RUNPOD_TIMEOUT
    /\ backend_requests' = backend_requests + 1
    /\ \E failed \in BOOLEAN, a \in BackendAnswers, d \in StatusRequestSeconds :
         IF failed
         THEN Respond(Raised("Exception")) /\ srv_elapsed' = srv_elapsed + d
         ELSE IF a.status \in {"COMPLETED", "FAILED"}
         THEN Respond(a) /\ srv_elapsed' = srv_elapsed + d
         ELSE /\ srv_elapsed' = srv_elapsed + d + RUNPOD_POLL_INTERVAL
              /\ UNCHANGED <<srv_pc, srv_outcome, http_status>>
    /\ UNCHANGED srv_configured
    /\ UNCHANGED exceptServer

\* line 333: the loop ran out of time
PollExpired ==
    /\ srv_pc = "poll"
    /\ srv_elapsed >= RUNPOD_TIMEOUT
    /\ Respond(Raised("TimeoutError"))
    /\ UNCHANGED <<srv_configured, srv_elapsed, backend_requests>>
    /\ UNCHANGED exceptServer

ServerNext ==
    \/ CheckConfig
    \/ RunSync
    \/ PollStatus
    \/ PollExpired

ServerSpec == ServerInit /\ [][ServerNext]_vars

\* ------------------------------------------------------------------------
\* handler (runpod_handler.py): download, probe, truncate, transcribe
\* ------------------------------------------------------------------------
\* MAX_DOWNLOAD_BYTES in blocks of iter_content, scaled down
MaxDownloadBlocks == 3

MAX_DURATION_SECONDS == 600

\* durations ffprobe can report, in seconds
ProbedDurations == {0, 599, 600, 601, 900}

Tasks == {"transcribe", "translate", "summarize"}

\* the exceptions of download_audio the handler catches (lines 150-157)
CaughtDownloadErrors == {"Timeout", "HTTPError", "ConnectionError", "ValueError"}

\* what requests.get and raise_for_status can raise (lines 60-61): MissingSchema
\* is a ValueError, TooManyRedirects is none of the four caught classes
RequestErrors ==
    {"Timeout", "HTTPError", "ConnectionError", "ValueError", "TooManyRedirects"}

\* what iter_content can raise while the body is read (line 65): a read
\* timeout arrives as ConnectionError, a broken body as ChunkedEncodingError
StreamErrors == {"ConnectionError", "ChunkedEncodingError"}

\* lines 232-239: the paths bound by then are removed, None is skipped
Finally(files, apath, tpath) == files \ {apath, tpath}

\* the invocation ends: return or raise, through the finally clause
HandlerEnds(out, why, files, apath, tpath) ==
    /\ handler_out' = out
    /\ problem' = why
    /\ tmp_files' = Finally(files, apath, tpath)
    /\ hd_pc' = "done"

\* lines 148-157: an exception of download_audio, with audio_path unbound
DownloadRaises(exc, files) ==
    HandlerEnds(IF exc \in CaughtDownloadErrors THEN "error" ELSE "raised",
                exc, files, "None", "None")

HandlerInit ==
    /\ hd_pc = "validate"
    /\ job_input \in [audio_url : BOOLEAN, task : Tasks]
    /\ tmp_files = {} /\ audio_path = "None" /\ truncated_path = "None"
    /\ downloaded = 0 /\ was_truncated = FALSE
    /\ handler_out = "none" /\ problem = "none" /\ fell_through = "none"
    /\ PipelineIdle
    /\ PollIdle
    /\ ClipIdle
    /\ StagesIdle
    /\ LangIdle
    /\ ServerIdle
    /\ AgentIdle

\* lines 130-144
Validate ==
    /\ hd_pc = "validate"
    /\ IF ~job_input.audio_url
       THEN /\ handler_out' = "error" /\ problem' = "missing audio_url"
            /\ hd_pc' = "done"
       ELSE IF job_input.task \notin {"transcribe", "translate"}
       THEN /\ handler_out' = "error" /\ problem' = "invalid task"
            /\ hd_pc' = "done"
       ELSE /\ hd_pc' = "request"
            /\ UNCHANGED <<handler_out, problem>>
    /\ UNCHANGED <<job_input, tmp_files, audio_path, truncated_path, downloaded,
                   was_truncated, fell_through>>
    /\ UNCHANGED exceptHandler

\* lines 56-64: the request is answered and the file is opened, or the
\* request raises
DownloadRequest ==
    /\ hd_pc = "request"
    /\ \E r \in {"ok"} \cup RequestErrors :
         IF r = "ok"
         THEN /\ tmp_files' = tmp_files \cup {"audio"}
              /\ hd_pc' = "stream"
              /\ UNCHANGED <<handler_out, problem>>
         ELSE DownloadRaises(r, tmp_files)
    /\ UNCHANGED <<job_input, audio_path, truncated_path, downloaded,
                   was_truncated, fell_through>>
    /\ UNCHANGED exceptHandler

\* lines 65-75: one block arrives and is written or exceeds the cap, the
\* body ends, or the stream raises
DownloadBlock ==
    /\ hd_pc = "stream"
    /\ \E ev \in {"block", "end"} \cup StreamErrors :
         CASE ev = "block" ->
                /\ downloaded' = downloaded + 1
                /\ IF downloaded + 1 > MaxDownloadBlocks
                   THEN DownloadRaises("ValueError", tmp_files \ {"audio"})
                   ELSE UNCHANGED <<hd_pc, tmp_files, handler_out, problem>>
                /\ UNCHANGED audio_path
           [] ev = "end" ->
                /\ audio_path' = "audio"
                /\ hd_pc' = "probe"
                /\ UNCHANGED <<downloaded, tmp_files, handler_out, problem>>
           [] OTHER ->
                /\ DownloadRaises(ev, tmp_files)
                /\ UNCHANGED <<downloaded, audio_path>>
    /\ UNCHANGED <<job_input, truncated_path, was_truncated, fell_through>>
    /\ UNCHANGED exceptHandler

\* lines 160-174: the probe fails, or gives a duration; a duration over the
\* maximum starts ffmpeg, which writes the copy, or fails before or after it
\* created the output file
ProbeAndTruncate ==
    /\ hd_pc = "probe"
    /\ \E probed \in BOOLEAN, d \in ProbedDurations,
          cut \in {"ok", "failed", "failed with output"} :
         IF ~probed
         THEN /\ fell_through' = "probe"
              /\ UNCHANGED <<tmp_files, truncated_path, was_truncated>>
         ELSE IF d <= MAX_DURATION_SECONDS
         THEN UNCHANGED <<tmp_files, truncated_path, was_truncated, fell_through>>
         ELSE IF cut = "ok"
         THEN /\ tmp_files' = tmp_files \cup {"truncated"}
              /\ truncated_path' = "truncated"
              /\ was_truncated' = TRUE
              /\ UNCHANGED fell_through
         ELSE /\ fell_through' = "truncation"
              /\ tmp_files' = IF cut = "failed with output"
                              THEN tmp_files \cup {"truncated"}
                              ELSE tmp_files
              /\ UNCHANGED <<truncated_path, was_truncated>>
    /\ hd_pc' = "transcribe"
    /\ UNCHANGED <<job_input, audio_path, downloaded, handler_out, problem>>
    /\ UNCHANGED exceptHandler

\* lines 177-239: the transcription fails or the result is built, and the
\* finally clause removes the files
Transcribe ==
    /\ hd_pc = "transcribe"
    /\ \E ok \in BOOLEAN :
         IF ok
         THEN HandlerEnds("result", "none", tmp_files, audio_path, truncated_path)
         ELSE HandlerEnds("error", "transcription", tmp_files, audio_path,
                          truncated_path)
    /\ UNCHANGED <<job_input, audio_path, truncated_path, downloaded,
                   was_truncated, fell_through>>
    /\ UNCHANGED exceptHandler

HandlerNext ==
    \/ Validate
    \/ DownloadRequest
    \/ DownloadBlock
    \/ ProbeAndTruncate
    \/ Transcribe

HandlerSpec == HandlerInit /\ [][HandlerNext]_vars

\* ------------------------------------------------------------------------
\* handle_message of the discovery agent
\* ------------------------------------------------------------------------
MaxMessages == 2

\* the text of a ChatMessage: prose (not JSON, the empty text included), a
\* JSON object with or without a non-empty "language" and "language_code",
\* or JSON of another type (array, number, string, null)
ChatTexts ==
    [form : {"prose", "other JSON"}, language : {FALSE}, language_code : {FALSE}]
    \cup [form : {"object"}, language : BOOLEAN, language_code : BOOLEAN]

\* lines 174-179: json.loads and the two parsed.get calls; a JSONDecodeError
\* leaves both names None, parsed.get on a value that is not an object
\* raises AttributeError, which the except clause does not name
Parsed(text) ==
    CASE text.form = "prose" ->
           [raises |-> FALSE, language |-> FALSE, language_code |-> FALSE]
      [] text.form = "object" ->
           [raises |-> FALSE, language |-> text.language,
            language_code |-> text.language_code]
      [] OTHER ->
           [raises |-> TRUE, language |-> FALSE, language_code |-> FALSE]

\* messages the agent sends; ref is the msg_id of the message being handled
Acknowledgement(id) ==
    [type |-> "ChatAcknowledgement", ref |-> id, body |-> "none", ends |-> FALSE]

PaymentRequest(id) ==
    [type |-> "RequestPayment", ref |-> id, body |-> "none", ends |-> FALSE]

\* a ChatMessage whose content is a text and EndSessionContent
EndingChat(id, body) ==
    [type |-> "ChatMessage", ref |-> id, body |-> body, ends |-> TRUE]

AgentInit ==
    /\ agent_pc = "wait"
    /\ \E len \in 0..MaxMessages :
         \E texts \in [1..len -> ChatTexts] :
           inbox = [j \in 1..len |-> [msg_id |-> j, text |-> texts[j]]]
    /\ msg_i = 0
    /\ outbox = <<>>
    /\ discovered = {}
    /\ handler_raised = {}
    /\ PipelineIdle
    /\ PollIdle
    /\ ClipIdle
    /\ StagesIdle
    /\ LangIdle
    /\ ServerIdle
    /\ HandlerIdle

\* lines 128-136: the next message is handed to handle_message, which
\* acknowledges it
Acknowledge ==
    /\ agent_pc = "wait"
    /\ msg_i < Len(inbox)
    /\ msg_i' = msg_i + 1
    /\ outbox' = Append(outbox, Acknowledgement(inbox[msg_i + 1].msg_id))
    /\ agent_pc' = "payment"
    /\ UNCHANGED <<inbox, discovered, handler_raised>>
    /\ UNCHANGED exceptAgent

\* lines 139-168: the payment request is sent, or the send raises and the
\* exception is logged
RequestPaymentStep ==
    /\ agent_pc = "payment"
    /\ \E sent \in BOOLEAN :
         outbox' = IF sent
                   THEN Append(outbox, PaymentRequest(inbox[msg_i].msg_id))
                   ELSE outbox
    /\ agent_pc' = "parse"
    /\ UNCHANGED <<inbox, msg_i, discovered, handler_raised>>
    /\ UNCHANGED exceptAgent

\* lines 171-196: the text is parsed; the handler raises, or answers a
\* request without language or language_code and returns, or goes on
ParseRequest ==
    /\ agent_pc = "parse"
    /\ LET request == Parsed(inbox[msg_i].text)
           id == inbox[msg_i].msg_id
       IN  IF request.raises
           THEN /\ handler_raised' = handler_raised \cup {id}
                /\ agent_pc' = "wait"
                /\ UNCHANGED outbox
           ELSE IF ~request.language \/ ~request.language_code
           THEN /\ outbox' = Append(outbox, EndingChat(id, "request error"))
                /\ agent_pc' = "wait"
                /\ UNCHANGED handler_raised
           ELSE /\ agent_pc' = "discover"
                /\ UNCHANGED <<outbox, handler_raised>>
    /\ UNCHANGED <<inbox, msg_i, discovered>>
    /\ UNCHANGED exceptAgent

\* lines 198-219: discover_sources returns or raises, and the response is
\* sent
DiscoverAndRespond ==
    /\ agent_pc = "discover"
    /\ discovered' = discovered \cup {inbox[msg_i].msg_id}
    /\ \E found \in BOOLEAN :
         outbox' = Append(outbox,
                          EndingChat(inbox[msg_i].msg_id,
                                     IF found THEN "sources"
                                     ELSE "discovery error"))
    /\ agent_pc' = "wait"
    /\ UNCHANGED <<inbox, msg_i, handler_raised>>
    /\ UNCHANGED exceptAgent

AgentNext ==
    \/ Acknowledge
    \/ RequestPaymentStep
    \/ ParseRequest
    \/ DiscoverAndRespond

\* a handler that was started runs to its end
AgentSpec == AgentInit /\ [][AgentNext]_vars /\ WF_vars(AgentNext)

\* ------------------------------------------------------------------------
\* Vocabulary of the properties
\* ------------------------------------------------------------------------
Seconds(s) == s * 1000

\* number of positions of a sequence holding x
Count(seq, x) == Cardinality({k \in 1..Len(seq) : seq[k] = x})

\* the two sequences hold the same elements the same number of times
SameElements(a, b) ==
    /\ Len(a) = Len(b)
    /\ \A k \in 1..Len(a) : Count(a, a[k]) = Count(b, a[k])

\* how often chunk i stands in failed_chunks
TimesFailed(i) ==
    Cardinality({k \in 1..Len(failed_chunks) : failed_chunks[k][1] = i})

\* chunk i was transcribed, in the first pass or on retry
Succeeded(i) == res1[i].st = "ok" \/ res2[i].st = "ok"

\* the segments of the job of chunk i that succeeded
SegmentsOf(i) == IF res1[i].st = "ok" THEN res1[i].segments ELSE res2[i].segments

\* chunk i failed in the first pass and again in the retry round
FailedTwice(i) ==
    /\ res1[i].st = "failed"
    /\ res2[i].st \in {"failed", "submit_failed"}

\* a backend answer made the run raise
Malformed == \E i \in Chunks : res1[i].st = "raised" \/ res2[i].st = "raised"

\* a chunk-local word and segment moved to global time: plus i * chunk_seconds,
\* text, word text and probability as they were
ShiftedWord(w, i) ==
    [word |-> w.word, start |-> w.start + Seconds(i * chunk_seconds),
     end |-> w.end + Seconds(i * chunk_seconds), probability |-> w.probability]

Shifted(seg, i) ==
    IF "words" \in DOMAIN seg
    THEN [start |-> seg.start + Seconds(i * chunk_seconds),
          end |-> seg.end + Seconds(i * chunk_seconds),
          text |-> seg.text,
          words |-> [k \in 1..Len(seg.words) |-> ShiftedWord(seg.words[k], i)]]
    ELSE [start |-> seg.start + Seconds(i * chunk_seconds),
          end |-> seg.end + Seconds(i * chunk_seconds),
          text |-> seg.text]

ShiftedAll(segments, i) == [k \in 1..Len(segments) |-> Shifted(segments[k], i)]

\* the returned entries that came from chunk i (all_segments is the returned
\* list with each entry's origin once the run is done)
FromChunk(i) ==
    LET own == SelectSeq(all_segments, LAMBDA e : e.chunk = i)
    IN  [k \in 1..Len(own) |-> own[k].entry]

\* ------------------------------------------------------------------------
\* C1: in one run every chunk index is submitted at most twice and polled at
\* most twice; a second submission happens only as the retry of a first-pass
\* job that failed, and there is no third one.
\* ------------------------------------------------------------------------
C1_AtMostOneRetry ==
    \A i \in Chunks :
        /\ submits[i] <= 2
        /\ polls[i] <= 2
        /\ submits[i] = 2 => res1[i].st = "failed"
        /\ polls[i] = 2 => submits[i] = 2

\* a chunk failed, was retried, failed again, and the run ended
C1_Witness ==
    /\ pc = "done"
    /\ \E i \in Chunks :
         submits[i] = 2 /\ polls[i] = 2 /\ res2[i].st = "failed"

\* ------------------------------------------------------------------------
\* C2: every chunk whose first-pass submission fails is recorded in the
\* failed chunks (and so resubmitted in the retry round).
\* ------------------------------------------------------------------------
C2_SubmitFailureRecorded ==
    \A i \in Chunks : res1[i].st = "submit_failed" => TimesFailed(i) = 1

\* ------------------------------------------------------------------------
\* C3: a first-pass job that resolves without success (FAILED, handler
\* error, timeout, polling exception) puts its chunk exactly once into the
\* failed chunks, with that chunk's own URL; a chunk whose poll succeeded is
\* never there.
\* ------------------------------------------------------------------------
NonSuccessKinds == {"FAILED", "handler_error", "TimeoutError", "Exception"}

C3_PollFailureRecorded ==
    /\ \A i \in Chunks :
         /\ res1[i].st = "failed" => TimesFailed(i) = 1
         /\ res1[i].st = "ok" => TimesFailed(i) = 0
    /\ \A k \in 1..Len(failed_chunks) :
         failed_chunks[k][2] = r2_urls(failed_chunks[k][1])
    /\ (pc \in {"poll", "retry_submit"} /\ last \in NonSuccessKinds)
         => /\ failed_chunks # <<>>
            /\ res1[failed_chunks[Len(failed_chunks)][1]].st = "failed"
    /\ (pc \in {"poll", "retry_submit"} /\ last = "Success")
         => \E i \in Chunks : res1[i].st = "ok"

\* the first pass ended with a timed-out chunk recorded after another
\* failed chunk, and a third chunk succeeded
C3_Witness ==
    /\ pc = "retry_submit"
    /\ last = "TimeoutError"
    /\ Len(failed_chunks) = 2
    /\ failed_chunks[2][1] < failed_chunks[1][1]
    /\ \E i \in Chunks : res1[i].st = "ok"

\* ------------------------------------------------------------------------
\* C4: with at least one chunk transcribed, the run returns normally with
\* the segments of every transcribed chunk, however many other chunks end in
\* submission failure, backend failure, handler error or timeout.
\* ------------------------------------------------------------------------
C4_PartialFailureReturns ==
    (/\ pc \in {"done", "raised"}
     /\ \E i \in Chunks : Succeeded(i)
     /\ ~Malformed)
        => /\ pc = "done"
           /\ \A i \in Chunks :
                Succeeded(i) =>
                    \A k \in 1..Len(SegmentsOf(i)) :
                        Count(returned, Shifted(SegmentsOf(i)[k], i)) >= 1

\* three chunks: one transcribed, one never submitted, one failed twice
C4_Witness ==
    /\ pc = "done"
    /\ returned # <<>>
    /\ \E i, j, k \in Chunks :
         /\ res1[i].st = "ok"
         /\ res1[j].st = "submit_failed"
         /\ FailedTwice(k)

\* ------------------------------------------------------------------------
\* C5: if no submission is accepted by the backend (zero jobs), the run
\* fails with an error instead of returning.
\* ------------------------------------------------------------------------
C5_NoJobsRaises ==
    (pc \in {"done", "raised"} /\ n > 0 /\ jobs = <<>>) => pc = "raised"

\* C5 as the code has it: with zero accepted jobs a configured run returns
\* an empty list right after the submit loop, with no poll and no retry.
C5_NoJobsReturnsEmpty ==
    (pc \in {"done", "raised"} /\ configured /\ jobs = <<>>)
        => /\ pc = "done"
           /\ returned = <<>>
           /\ \A i \in Chunks : polls[i] = 0 /\ submits[i] <= 1

\* every submission of a run of MaxChunks chunks was rejected
C5_Witness ==
    /\ pc = "done"
    /\ n = MaxChunks
    /\ jobs = <<>>
    /\ \A i \in Chunks : res1[i].st = "submit_failed"

\* ------------------------------------------------------------------------
\* C6: a chunk that fails in the first pass and again in the retry round
\* contributes no segment, and the run still returns; with chunk-local start
\* times in [0, L) no returned segment starts inside that chunk's range.
\* ------------------------------------------------------------------------
LocalTimesInRange ==
    \A i \in Chunks :
        Succeeded(i) =>
            \A k \in 1..Len(SegmentsOf(i)) :
                /\ 0 <= SegmentsOf(i)[k].start
                /\ SegmentsOf(i)[k].start < Seconds(chunk_seconds)

C6_FailedTwiceIsGap ==
    \A i \in Chunks :
        FailedTwice(i) =>
            /\ pc # "raised" \/ Malformed
            /\ pc = "done" => FromChunk(i) = <<>>
            /\ (pc = "done" /\ LocalTimesInRange) =>
                 \A k \in 1..Len(returned) :
                     \/ returned[k].start < Seconds(i * chunk_seconds)
                     \/ returned[k].start >= Seconds((i + 1) * chunk_seconds)

\* chunk 1 failed twice; chunks 0 and 2 returned segments around the gap
C6_Witness ==
    /\ pc = "done"
    /\ n = 3
    /\ FailedTwice(1)
    /\ LocalTimesInRange
    /\ FromChunk(0) # <<>>
    /\ FromChunk(2) # <<>>

\* ------------------------------------------------------------------------
\* C7: every segment of a transcribed chunk i, and every word in it, is in
\* the output with start and end equal to the chunk-local value plus
\* i * chunk_seconds, and with text, word text and probability unchanged.
\* ------------------------------------------------------------------------
C7_OffsetByChunkIndex ==
    pc = "done" =>
        \A i \in Chunks :
            Succeeded(i) => SameElements(FromChunk(i), ShiftedAll(SegmentsOf(i), i))

\* a segment with a word at local 2.00 s came back for the last chunk, on
\* retry, and is in the output 2.00 s after that chunk's offset
C7_Witness ==
    /\ pc = "done"
    /\ n = MaxChunks
    /\ res2[n - 1].st = "ok"
    /\ \E k \in 1..Len(returned) :
         /\ "words" \in DOMAIN returned[k]
         /\ returned[k].words[1].start = Seconds((n - 1) * chunk_seconds) + 2000

\* ------------------------------------------------------------------------
\* C8: the returned segment list is sorted in non-decreasing order of global
\* start time, for every combination and order of completions.
\* ------------------------------------------------------------------------
C8_SortedByStart ==
    pc = "done" =>
        \A j, k \in 1..Len(returned) :
            j < k => returned[j].start <= returned[k].start

\* a later chunk completed in the first pass, an earlier one only on retry
C8_Witness ==
    /\ pc = "done"
    /\ \E i, j \in Chunks :
         /\ i < j
         /\ res2[i].st = "ok" /\ res2[i].segments # <<>>
         /\ res1[j].st = "ok" /\ res1[j].segments # <<>>
         /\ LocalTimesInRange

\* ------------------------------------------------------------------------
\* C9: reassembly is order-independent: for fixed per-chunk results every
\* completion order (and either round) yields the identical returned
\* sequence, i.e. the one obtained when the chunks complete in index order.
\* ------------------------------------------------------------------------
RECURSIVE InIndexOrder(_)
InIndexOrder(m) ==
    IF m = 0 THEN <<>>
    ELSE InIndexOrder(m - 1) \o
         (IF Succeeded(m - 1)
          THEN AppendSegments(<<>>, SegmentsOf(m - 1), m - 1, 1)
          ELSE <<>>)

C9_OrderIndependent ==
    pc = "done" =>
        LET canonical == SortByStart(InIndexOrder(MaxChunks))
        IN  returned = [k \in 1..Len(canonical) |-> canonical[k].entry]

\* ------------------------------------------------------------------------
\* C10: a chunk that fails in the first pass and succeeds on retry
\* contributes exactly the segments of its retry result, each once, and
\* nothing from the first pass.
\* ------------------------------------------------------------------------
C10_RetryIdempotent ==
    pc = "done" =>
        \A i \in Chunks :
            (res1[i].st = "failed" /\ res2[i].st = "ok") =>
                /\ SameElements(FromChunk(i), ShiftedAll(res2[i].segments, i))
                /\ \A k \in 1..Len(all_segments) :
                     all_segments[k].chunk = i => all_segments[k].round = 2

\* a chunk came back with two segments on retry after a failed first job
C10_Witness ==
    /\ pc = "done"
    /\ \E i \in Chunks :
         /\ res1[i].st = "failed"
         /\ res2[i].st = "ok"
         /\ Len(res2[i].segments) = 2
         /\ Len(FromChunk(i)) = 2

\* ------------------------------------------------------------------------
\* C11: every poll task resolves after finitely many status queries, with
\* the first COMPLETED or FAILED response or with a timeout, and hence a
\* configured transcribe_chunks always eventually returns.
\* The poll task does resolve (PollTerminates and PollOutcomeSound hold of
\* PollSpec) and transcribe_chunks does stop (PipelineTerminates holds of
\* LiveSpec), but it stops by raising, not by returning, when a COMPLETED
\* response carries a null output.
\* ------------------------------------------------------------------------
PipelineTerminates == <>(pc \in {"done", "raised"})

C11_EventuallyReturns == configured => <>(pc = "done")

\* ------------------------------------------------------------------------
\* C12: no retry job is submitted while a first-pass poll task is still
\* unresolved, so no first-pass result arrives after its chunk's retry was
\* triggered and no chunk is resolved successfully in both rounds.
\* ------------------------------------------------------------------------
FirstPassJobs == {i \in Chunks : res1[i].st \notin {"none", "submit_failed"}}

C12_RetryAfterFirstPass ==
    /\ (\E i \in Chunks : submits[i] = 2 \/ res2[i].st # "none")
         => \A j \in FirstPassJobs : res1[j].st \in {"ok", "failed"}
    /\ pc \in {"retry_submit", "retry_poll"}
         => \A j \in FirstPassJobs : res1[j].st \in {"ok", "failed"}
    /\ \A i \in Chunks : ~(res1[i].st = "ok" /\ res2[i].st = "ok")
    /\ \A i \in Chunks : res1[i].st = "ok" => res2[i].st = "none"

\* a retry job is being polled while another chunk's first-pass result is in
C12_Witness ==
    /\ pc = "retry_poll"
    /\ \E i, j \in Chunks :
         /\ res1[i].st = "ok"
         /\ res1[j].st = "failed"
         /\ res2[j].st = "pending"

\* ------------------------------------------------------------------------
\* C13: every chunk index follows Pending -> Submitted -> {Completed |
\* FailedRound1} and FailedRound1 -> Submitted(retry) -> {Completed |
\* FailedFinal}; a Completed chunk is never resubmitted, and when
\* transcribe_chunks returns every chunk is in Completed or FailedFinal.
\* ------------------------------------------------------------------------
\* the lifecycle state of chunk i; a rejected submission is an attempt that
\* failed at once (first pass: FailedRound1, retry: FailedFinal)
ChunkState(i) ==
    IF res1[i].st = "none" THEN "Pending"
    ELSE IF res1[i].st = "pending" THEN "Submitted"
    ELSE IF res1[i].st = "ok" THEN "Completed"
    ELSE IF res1[i].st = "raised" THEN "Raised"
    ELSE IF res2[i].st = "none" THEN "FailedRound1"
    ELSE IF res2[i].st = "pending" THEN "SubmittedRetry"
    ELSE IF res2[i].st = "ok" THEN "Completed"
    ELSE IF res2[i].st = "raised" THEN "Raised"
    ELSE "FailedFinal"

C13_Lifecycle ==
    /\ \A i \in Chunks : res1[i].st = "ok" => submits[i] = 1
    /\ pc = "done" =>
         \A i \in 0..(n - 1) : ChunkState(i) \in {"Completed", "FailedFinal"}

\* ------------------------------------------------------------------------
\* Vocabulary of the properties of clip_and_upload_words
\* ------------------------------------------------------------------------
\* the word occurrences of the transcript, in document order
Occurrences == AllWords(transcript)

\* the text of an occurrence is usable: non-empty and longer than 1
\* character once surrounding whitespace is removed
TextUsable(w) == Strip(w.word) # <<>> /\ Len(Strip(w.word)) > 1

\* the duration of an occurrence as the transcript states it, in ms
StatedDuration(w) == w.end - w.start

\* the occurrence qualifies by the timestamps the transcript states
Qualifies(w) == TextUsable(w) /\ StatedDuration(w) >= 200

\* the occurrence qualifies by the duration the code computes
Kept(w) == TextUsable(w) /\ SignedGeq(Duration(w), MinDuration)

\* the words have been collected
Collected == clip_pc \in {"clip", "upload", "done"}

\* the clipping loop has ended
Clipped == clip_pc \in {"upload", "done"} /\ seen # <<>>

\* str.lower() of a text
Lower(t) == [k \in 1..Len(t) |-> LowerChar(t[k])]

SeenTexts == {seen[k].text : k \in 1..Len(seen)}

\* ------------------------------------------------------------------------
\* C14: for each distinct word text, the first occurrence in document order
\* that is non-empty, longer than 1 character and of duration >= 0.2 s is
\* the one selected, and later occurrences never replace it.
\* ------------------------------------------------------------------------
FirstQualifying(k) ==
    /\ Qualifies(Occurrences[k])
    /\ \A j \in 1..(k - 1) :
         ~(Qualifies(Occurrences[j])
           /\ Strip(Occurrences[j].word) = Strip(Occurrences[k].word))

C14_FirstQualifyingOccurrence ==
    Collected =>
      /\ \A k \in 1..Len(Occurrences) :
           FirstQualifying(k) =>
             \E i \in 1..Len(seen) :
               /\ seen[i].text = Strip(Occurrences[k].word)
               /\ seen[i].w = Occurrences[k]
      /\ \A i, j \in 1..Len(seen) : seen[i].text = seen[j].text => i = j

\* the scenario of the claim: "hi" at [1.0, 1.3] and again at [40.0, 40.5]
\* gives one clip, cut from chunk 0 (this part holds)
C14_Scenario ==
    /\ Clipped
    /\ transcript = << [start |-> 1000, words |-> <<Word(<<"h", "i">>, 1000, 1300)>>],
                       [start |-> 40000, words |-> <<Word(<<"h", "i">>, 40000, 40500)>>] >>
    => /\ Len(seen) = 1
       /\ Len(clip_tasks) <= 1
       /\ \A k \in 1..Len(clip_tasks) :
            clip_tasks[k].chunk_idx = 0 /\ clip_tasks[k].w.start = 1000

\* ------------------------------------------------------------------------
\* C15: two word occurrences are the same word exactly when their texts are
\* identical strings; texts that differ only in surrounding whitespace are
\* distinct words with separate keys.
\* ------------------------------------------------------------------------
KeptOccurrences == {k \in 1..Len(Occurrences) : Kept(Occurrences[k])}

C15_ExactTextIdentity ==
    Collected =>
      Len(seen) = Cardinality({Occurrences[k].word : k \in KeptOccurrences})

\* C15 as amended: two occurrences are the same word exactly when their
\* texts are equal after surrounding whitespace is removed; letter case is
\* not changed.
C15_SameWordUpToWhitespace ==
    Collected =>
      /\ \A k \in KeptOccurrences :
           Cardinality({i \in 1..Len(seen) :
                          seen[i].text = Strip(Occurrences[k].word)}) = 1
      /\ \A i \in 1..Len(seen) :
           /\ seen[i].text = Strip(seen[i].w.word)
           /\ \E k \in KeptOccurrences : seen[i].w = Occurrences[k]
      /\ Len(seen) = Cardinality({Strip(Occurrences[k].word) : k \in KeptOccurrences})

\* two kept occurrences whose texts differ only in whitespace: one word
C15_Witness ==
    /\ Collected
    /\ Len(seen) = 1
    /\ \E j, k \in KeptOccurrences :
         /\ Occurrences[j].word # Occurrences[k].word
         /\ Strip(Occurrences[j].word) = Strip(Occurrences[k].word)

\* ------------------------------------------------------------------------
\* C16: clips are built per case- and whitespace-normalised text:
\* occurrences whose texts differ only in letter case or in surrounding
\* whitespace yield a single clip.
\* ------------------------------------------------------------------------
C16_CaseAndWhitespaceNormalised ==
    Clipped =>
      \A a, b \in 1..Len(clip_tasks) :
        Lower(Strip(clip_tasks[a].w.word)) = Lower(Strip(clip_tasks[b].w.word))
          => a = b

\* C16 as amended: clips are built per whitespace-stripped text, letter case
\* kept: occurrences whose texts differ only in surrounding whitespace yield
\* a single clip, cut from the first occurrence the code keeps, and texts
\* that differ in letter case are different words with a clip each.
FirstKept(text) ==
    CHOOSE k \in KeptOccurrences :
      /\ Strip(Occurrences[k].word) = text
      /\ \A j \in KeptOccurrences : Strip(Occurrences[j].word) = text => k <= j

C16_WhitespaceNormalisedOnly ==
    Clipped =>
      /\ \A a, b \in 1..Len(clip_tasks) :
           Strip(clip_tasks[a].w.word) = Strip(clip_tasks[b].w.word) => a = b
      /\ \A a \in 1..Len(clip_tasks) :
           /\ clip_tasks[a].text = Strip(clip_tasks[a].w.word)
           /\ clip_tasks[a].w = Occurrences[FirstKept(clip_tasks[a].text)]
      /\ \A j, k \in KeptOccurrences :
           Strip(Occurrences[j].word) # Strip(Occurrences[k].word) =>
             \E e, f \in 1..Len(seen) :
               /\ e # f
               /\ seen[e].text = Strip(Occurrences[j].word)
               /\ seen[f].text = Strip(Occurrences[k].word)

\* "Hi" and "hi" both clipped and uploaded: two entries
C16_Witness ==
    /\ clip_pc = "done"
    /\ \E a, b \in 1..Len(result) :
         /\ a # b
         /\ Lower(result[a].text) = Lower(result[b].text)

\* ------------------------------------------------------------------------
\* C17: a word of duration exactly 0.2 s is kept as a clip candidate and a
\* word of a shorter duration is dropped, whatever its start time.
\* ------------------------------------------------------------------------
C17_DurationBoundary ==
    Collected =>
      /\ \A k \in 1..Len(Occurrences) :
           TextUsable(Occurrences[k]) /\ StatedDuration(Occurrences[k]) >= 200
             => InSeen(seen, Strip(Occurrences[k].word))
      /\ \A i \in 1..Len(seen) : StatedDuration(seen[i].w) >= 200

\* what does hold: a shorter word is never kept, and a word of exactly
\* 0.2 s that starts at 0.0 is kept
C17_ShortDropped ==
    Collected =>
      /\ \A i \in 1..Len(seen) : StatedDuration(seen[i].w) >= 200
      /\ \A k \in 1..Len(Occurrences) :
           /\ TextUsable(Occurrences[k])
           /\ Occurrences[k].start = 0
           /\ StatedDuration(Occurrences[k]) = 200
           => InSeen(seen, Strip(Occurrences[k].word))

\* ------------------------------------------------------------------------
\* C18: for every kept word the source chunk index is
\* floor(start / chunk_seconds) clamped to the last chunk index, so it lies
\* in 0..len(chunk_paths)-1, and the slice taken from that chunk is
\* [start - idx * chunk_seconds, end - idx * chunk_seconds].
\* ------------------------------------------------------------------------
ClampedIndex(w) ==
    LET f == w.start \div Seconds(chunk_seconds)
    IN  IF f < chunk_paths - 1 THEN f ELSE chunk_paths - 1

\* the index part, which holds
C18_ChunkIndex ==
    \A k \in 1..Len(clip_tasks) :
      /\ clip_tasks[k].chunk_idx = ClampedIndex(clip_tasks[k].w)
      /\ clip_tasks[k].chunk_idx \in 0..(chunk_paths - 1)

C18_ChunkAndSlice ==
    \A k \in 1..Len(clip_tasks) :
      LET w == clip_tasks[k].w
          chunk_idx == ClampedIndex(w)
      IN  /\ clip_tasks[k].chunk_idx = chunk_idx
          /\ chunk_idx \in 0..(chunk_paths - 1)
          /\ clip_tasks[k].from = w.start - chunk_idx * Seconds(chunk_seconds)
          /\ clip_tasks[k].to = w.end - chunk_idx * Seconds(chunk_seconds)

\* ------------------------------------------------------------------------
\* C19: the returned map contains a word exactly when its clip was cut and
\* its upload succeeded; no entry holds a placeholder key, and every value is
\* the URL returned for that word's own clip.
\* ------------------------------------------------------------------------
TaskOf(text) == {k \in 1..Len(clip_tasks) : clip_tasks[k].text = text}

C19_OnlyUploadedWords ==
    clip_pc = "done" =>
      /\ \A text \in SeenTexts :
           (\E e \in 1..Len(result) : result[e].text = text)
             <=> (\E k \in TaskOf(text) : uploads[k] = "ok")
      /\ \A e \in 1..Len(result) :
           /\ result[e].text \in SeenTexts
           /\ StartsWithHttp(result[e].value)
           /\ \E k \in TaskOf(result[e].text) :
                result[e].value = FullUrl(clip_tasks[k].r2_key)
      /\ \A e, f \in 1..Len(result) : result[e].text = result[f].text => e = f

\* returned with one word uploaded, one whose upload failed and one whose
\* clipping failed
C19_Witness ==
    /\ clip_pc = "done"
    /\ Len(result) >= 1
    /\ \E k \in 1..Len(clip_tasks) : uploads[k] = "failed"
    /\ Len(clip_tasks) < Len(seen)

\* ------------------------------------------------------------------------
\* C20: for a fixed transcript and a fixed outcome of each upload, the
\* returned map (keys and values) is the same for every completion order of
\* the concurrent uploads.
\* ------------------------------------------------------------------------
\* the map the clips and the outcomes of their uploads determine
RECURSIVE UploadedFrom(_)
UploadedFrom(k) ==
    IF k > Len(clip_tasks) THEN <<>>
    ELSE IF uploads[k] = "ok"
         THEN <<[text |-> clip_tasks[k].text, value |-> FullUrl(clip_tasks[k].r2_key)]>>
              \o UploadedFrom(k + 1)
         ELSE UploadedFrom(k + 1)

C20_OrderIndependent ==
    /\ clip_pc = "done" /\ seen # <<>> => result = UploadedFrom(1)
    /\ clip_pc = "upload" =>
         \A k \in 1..Len(clip_tasks) :
           word_clips[k].value =
             IF k <= consumed /\ uploads[k] = "ok"
             THEN FullUrl(clip_tasks[k].r2_key) ELSE clip_tasks[k].r2_key

\* the uploads completed in another order than the tasks were handed in, the
\* first upload failed and a later one succeeded
C20_Witness ==
    /\ clip_pc = "done"
    /\ Len(result) >= 1
    /\ uploads[1] = "failed"
    /\ \E i, j \in 1..Len(order) : i < j /\ order[i] > order[j]

\* ------------------------------------------------------------------------
\* Vocabulary of the properties of process_video
\* ------------------------------------------------------------------------
\* the starts of a list of segments never decrease
StartsAscend(segments) ==
    \A j, k \in 1..Len(segments) :
      j < k => segments[j].start <= segments[k].start

\* process_video has returned or raised
VideoEnded == video_pc \in {"returned", "raised"}

\* the stages the source is acquired, cut and stored in
SourceStages == {"extract", "download", "probe", "chunk", "upload"}

\* the correction step is behind
PastCorrection == video_pc \in {"cache", "complete", "returned"}

\* ------------------------------------------------------------------------
\* C21: once process_video has created its work directory, the directory is
\* purged by the time process_video returns or raises, whichever step
\* succeeded or failed.
\* ------------------------------------------------------------------------
C21_WorkDirPurged ==
    (VideoEnded /\ work_dir # "none") => work_dir = "purged"

\* a run whose correction request failed after everything before it succeeded
C21_Witness ==
    /\ video_pc = "raised"
    /\ error = "correct"
    /\ locals.segments # <<>>
    /\ work_dir = "purged"

\* ------------------------------------------------------------------------
\* C22: a failure of the event sink never changes the control flow: no step
\* raises because an emission failed, and the error process_video's failure
\* handler re-raises is the one that entered it, whether or not the handler's
\* own emission reached the sink.
\* ------------------------------------------------------------------------
C22_SinkFailureSwallowed ==
    [][/\ error' # "emit"
       /\ video_pc = "except" => (error' = error /\ video_pc' = "raised")
       /\ (sink_lost' > sink_lost /\ video_pc' = "returned")
             => video_result' = <<Result(locals)>>]_vars

\* the download failed, and neither the emission before it nor the one of
\* the failure handler reached the sink
C22_Witness ==
    /\ video_pc = "raised"
    /\ error = "download"
    /\ sink_lost = 2

\* ------------------------------------------------------------------------
\* C23: without an API key correct_transcription makes no request and
\* returns its input, so corrected_transcript equals transcript; the two are
\* also equal when the transcript is empty or only whitespace.
\* ------------------------------------------------------------------------
C23_CorrectionPassThrough ==
    /\ ~api_key => requests_made = 0
    /\ (PastCorrection /\ (~api_key \/ Strip(locals.transcript) = <<>>))
          => locals.corrected_transcript = locals.transcript
    /\ (video_pc = "returned" /\ (~api_key \/ Strip(locals.transcript) = <<>>))
          => video_result[1].corrected_transcript = video_result[1].transcript

\* a run without key that returned a transcript with speech in it
C23_Witness ==
    /\ video_pc = "returned"
    /\ ~api_key
    /\ Strip(video_result[1].transcript) # <<>>
    /\ video_result[1].corrected_transcript = video_result[1].transcript

\* ------------------------------------------------------------------------
\* C24: process_video raises only when the download, the chunking or the
\* upload of the source chunks failed; a failure of the transcription, of the
\* clipping, of the correction, of the cache or of the event sink ends in a
\* returned result.
\* ------------------------------------------------------------------------
C24_OnlySourceFailuresRaise ==
    video_pc = "raised" => error \in SourceStages

\* ------------------------------------------------------------------------
\* C26: a source of 75 seconds with L = 30 is cut into chunks of 30, 30 and
\* 15 seconds; when chunks 0 and 2 succeed in the first pass and chunk 1 fails
\* there and succeeds on retry, the returned transcript is the segments of
\* chunk 0, then those of chunk 1 shifted by 30 s, each once, then those of
\* chunk 2 shifted by 60 s, in ascending order of start.
\* ------------------------------------------------------------------------
ChunkLength(k) == chunk_files[k].to - chunk_files[k].from

RetryOfMiddleChunk ==
    /\ pc = "done"
    /\ res1[0].st = "ok"
    /\ res1[1].st = "failed"
    /\ res2[1].st = "ok"
    /\ res1[2].st = "ok"

C26_RetriedChunkInPlace ==
    /\ chunk_pc = "done"
          => /\ Len(chunk_files) = 3
             /\ ChunkLength(1) = Seconds(30)
             /\ ChunkLength(2) = Seconds(30)
             /\ ChunkLength(3) = Seconds(15)
    /\ RetryOfMiddleChunk
          => /\ FromChunk(1) = ShiftedAll(res2[1].segments, 1)
             /\ FromChunk(2) = ShiftedAll(res1[2].segments, 2)
             /\ StartsAscend(returned)
             /\ returned = FromChunk(0) \o FromChunk(1) \o FromChunk(2)

\* ------------------------------------------------------------------------
\* C27: the transcript text of the result, and of the cached payload, is the
\* texts of the returned segments in their order with exactly one space
\* between neighbours; from the transcription step on the text of the run
\* stays the one derived from its segment list.
\* ------------------------------------------------------------------------
\* characters of a single-space join that stand before the k-th text
RECURSIVE JoinedBefore(_, _)
JoinedBefore(texts, k) ==
    IF k = 1 THEN 0
    ELSE JoinedBefore(texts, k - 1) + Len(texts[k - 1]) + 1

SingleSpaceJoined(t, texts) ==
    LET m == Len(texts)
    IN  /\ Len(t) = IF m = 0 THEN 0 ELSE JoinedBefore(texts, m) + Len(texts[m])
        /\ \A k \in 1..m :
             /\ \A j \in 1..Len(texts[k]) :
                  t[JoinedBefore(texts, k) + j] = texts[k][j]
             /\ k < m => t[JoinedBefore(texts, k) + Len(texts[k]) + 1] = " "

C27_TranscriptDerived ==
    /\ video_pc \in {"clip", "correct", "cache", "complete", "returned"}
          => SingleSpaceJoined(locals.transcript, Texts(locals.segments))
    /\ cache # <<>>
          => /\ SingleSpaceJoined(cache[1].transcript, Texts(cache[1].segments))
             /\ StartsAscend(cache[1].segments)
    /\ video_pc = "returned"
          => /\ SingleSpaceJoined(video_result[1].transcript,
                                  Texts(video_result[1].segments))
             /\ StartsAscend(video_result[1].segments)

\* a cached and returned run of two segments
C27_Witness ==
    /\ video_pc = "returned"
    /\ cache # <<>>
    /\ Len(video_result[1].segments) = 2
    /\ video_result[1].transcript = <<"b", " ", "c">>
    /\ cache[1].transcript = video_result[1].transcript

\* ------------------------------------------------------------------------
\* C30: a failed cache write never aborts process_video: the run goes on to
\* return, and the result holds the transcript, the corrected transcript,
\* the segments, the clips and the URLs of the run, as it does after a
\* successful write.
\* ------------------------------------------------------------------------
C30_CacheFailureHarmless ==
    /\ cache_failed => (video_pc \in {"complete", "returned"} /\ error = "none")
    /\ video_pc = "returned"
          => /\ video_result[1].transcript = locals.transcript
             /\ video_result[1].corrected_transcript = locals.corrected_transcript
             /\ video_result[1].segments = locals.segments
             /\ video_result[1].word_clips = locals.word_clips
             /\ video_result[1].audio_urls = locals.r2_urls

\* a run with segments that returned although set_cache raised
C30_Witness ==
    /\ video_pc = "returned"
    /\ cache_failed
    /\ cache = <<>>
    /\ video_result[1].segments # <<>>

\* ------------------------------------------------------------------------
\* C25: for every chunk length L > 0 and duration D, chunk_audio terminates
\* with exactly ceil(D/L) chunks in index order, chunk i covering
\* [i*L, min((i+1)*L, D)): the chunks tile [0, D) without gap or overlap and
\* only the last one may be shorter than L.
\* ------------------------------------------------------------------------
CeilDiv(a, b) == (a + b - 1) \div b

ChunkTiling ==
    LET m == Len(chunk_files)
    IN  /\ m = CeilDiv(total_ms, chunk_ms)
        /\ \A i \in 0..(m - 1) :
             /\ chunk_files[i + 1].from = i * chunk_ms
             /\ chunk_files[i + 1].to = Min((i + 1) * chunk_ms, total_ms)
             /\ chunk_files[i + 1].from < chunk_files[i + 1].to
             /\ i < m - 1 =>
                  /\ chunk_files[i + 1].to = chunk_files[i + 2].from
                  /\ chunk_files[i + 1].to - chunk_files[i + 1].from = chunk_ms
        /\ m > 0 => (chunk_files[1].from = 0 /\ chunk_files[m].to = total_ms)

C25_ChunksTile ==
    /\ [](chunk_pc = "done" => ChunkTiling)
    /\ <>(chunk_pc \in {"done", "raised"})

\* four chunks of one second, the last one a quarter of a second long
C25_Witness ==
    /\ chunk_pc = "done"
    /\ chunk_ms = 1000
    /\ total_ms = 3250
    /\ Len(chunk_files) = 4
    /\ chunk_files[4] = [from |-> 3000, to |-> 3250]

\* ------------------------------------------------------------------------
\* C28: the timestamp invariants survive rounding and reassembly: when the
\* unrounded chunk-local values of every Whisper output have start < end for
\* each segment and word and the words of a segment in non-decreasing order,
\* the same holds of every segment and word of the returned transcript.
\* ------------------------------------------------------------------------
WordsAscend(words) ==
    \A j, k \in 1..Len(words) : j < k => words[j].start <= words[k].start

TimesOrdered(seg, words) ==
    /\ seg.start < seg.end
    /\ \A k \in 1..Len(words) : words[k].start < words[k].end
    /\ WordsAscend(words)

RawTimesOrdered ==
    \A raw \in RawResults : \A k \in 1..Len(raw) :
      TimesOrdered(raw[k], raw[k].words)

C28_TimestampInvariants ==
    RawTimesOrdered =>
      \A k \in 1..Len(returned) : TimesOrdered(returned[k], WordsOf(returned[k]))

\* ------------------------------------------------------------------------
\* C29: upload_chunks_to_r2 returns one URL per chunk, entry i being the URL
\* of chunk i, or raises at the first chunk whose upload fails, with no later
\* chunk uploaded and no list returned; the URL at index i is therefore the
\* one transcribe_chunks submits for chunk i.
\* ------------------------------------------------------------------------
C29_AllUrlsOrRaise ==
    /\ \A k \in 1..Len(stored) :
         stored[k].chunk = k - 1 /\ stored[k].key = k - 1
    /\ upload_pc = "done"
          => /\ Len(upload_result[1]) = Len(chunk_files)
             /\ Len(stored) = Len(chunk_files)
             /\ \A i \in 0..(Len(chunk_files) - 1) :
                  upload_result[1][i + 1] = r2_urls(i)
    /\ upload_pc = "raised"
          => /\ upload_result = <<>>
             /\ Len(stored) = upload_i
             /\ upload_i < Len(chunk_files)
    /\ upload_pc \notin {"done"} => upload_result = <<>>

\* the upload of the third of four chunks failed
C29_Witness ==
    /\ upload_pc = "raised"
    /\ Len(chunk_files) = 4
    /\ upload_i = 2
    /\ Len(stored) = 2
    /\ upload_result = <<>>

\* ------------------------------------------------------------------------
\* C31: resolve_whisper_language returns the code of the first entry of
\* contact_languages, in list order, that has a mapping; when no entry has
\* one, or the list is empty or absent, it returns language_code if that has
\* exactly two characters and "en" otherwise.
\* ------------------------------------------------------------------------
MappedPositions ==
    {k \in 1..Len(contact_languages) :
       ContactLangToWhisper(contact_languages[k]) # <<>>}

FirstMapped == CHOOSE k \in MappedPositions : \A j \in MappedPositions : k <= j

C39_ContactNameMatchesCode ==
    lang_pc = "done" => ContactLangToWhisper(contact_lang_name) = whisper_lang

\* ------------------------------------------------------------------------
\* C35: no response the backend gives for a single chunk makes
\* transcribe_chunks raise: with the endpoint configured, a COMPLETED result
\* with a malformed payload counts as that chunk's failure or as an empty
\* result, and the run still returns.
\* ------------------------------------------------------------------------
C35_NoResponseRaises ==
    configured => (pc # "raised" /\ ~Malformed)

\* ------------------------------------------------------------------------
\* C36: round trip between reassembly and clipping: a word that chunk i's job
\* gave at chunk-local times [s, e] within the chunk, offset by
\* i * chunk_seconds in the transcript, is clipped from chunk i at exactly
\* [s, e].
\* ------------------------------------------------------------------------
\* the word of the transcript can be chunk i's word at local [s, e]
OriginOf(w, i) ==
    [s |-> w.start - i * Seconds(chunk_seconds),
     e |-> w.end - i * Seconds(chunk_seconds)]

WithinChunk(o) == 0 <= o.s /\ o.s < o.e /\ o.e <= Seconds(chunk_seconds)

C36_RoundTrip ==
    \A k \in 1..Len(clip_tasks) : \A i \in 0..(chunk_paths - 1) :
      LET o == OriginOf(clip_tasks[k].w, i)
      IN  WithinChunk(o) =>
            /\ clip_tasks[k].chunk_idx = i
            /\ clip_tasks[k].from = o.s
            /\ clip_tasks[k].to = o.e

\* ------------------------------------------------------------------------
\* C37: conservation of segments: the returned list is the multiset union,
\* over the chunks whose first-pass or retry job succeeded, of that job's
\* segments after offsetting; none is lost or duplicated, and each chunk
\* contributes the segments of at most one job.
\* ------------------------------------------------------------------------
\* the offset segments of the successful jobs of chunks 0..m-1
RECURSIVE SucceededSegments(_)
SucceededSegments(m) ==
    IF m = 0 THEN <<>>
    ELSE SucceededSegments(m - 1) \o
         (IF Succeeded(m - 1) THEN ShiftedAll(SegmentsOf(m - 1), m - 1)
          ELSE <<>>)

C37_SegmentsConserved ==
    /\ \A i \in Chunks : ~(res1[i].st = "ok" /\ res2[i].st = "ok")
    /\ \A j, k \in 1..Len(all_segments) :
         all_segments[j].chunk = all_segments[k].chunk
            => all_segments[j].round = all_segments[k].round
    /\ pc = "done" => SameElements(returned, SucceededSegments(MaxChunks))

\* chunk 0 succeeded at once with two segments, chunk 1 on retry with one,
\* and a third chunk failed twice
C37_Witness ==
    /\ pc = "done"
    /\ n = 3
    /\ res1[0].st = "ok" /\ Len(res1[0].segments) = 2
    /\ res1[1].st = "failed" /\ res2[1].st = "ok" /\ Len(res2[1].segments) = 1
    /\ FailedTwice(2)
    /\ Len(returned) = 3

\* ------------------------------------------------------------------------
\* C33: /transcribe answers 503, without any backend request, when RunPod is
\* not configured; 502 for a result with status FAILED; 504 when the polling
\* ran out of time; 500 for any other exception.
\* ------------------------------------------------------------------------
C33_StatusMapping ==
    /\ ~srv_configured => backend_requests = 0
    /\ srv_pc = "responded" =>
         /\ ~srv_configured <=> http_status = 503
         /\ (srv_outcome.exc = "none" /\ srv_outcome.status = "FAILED")
               <=> http_status = 502
         /\ srv_outcome.exc = "TimeoutError" <=> http_status = 504
         /\ (srv_outcome.exc = "Exception"
               \/ (srv_outcome.exc = "none" /\ srv_outcome.output = "null"))
               <=> http_status = 500

\* a job that answered FAILED to a status request while being polled
C33_Witness ==
    /\ srv_pc = "responded"
    /\ srv_outcome.status = "FAILED"
    /\ backend_requests > 1
    /\ http_status = 502

\* ------------------------------------------------------------------------
\* C34: the handler reports every problem of a chunk as a returned error
\* value and never raises: a missing audio_url, an invalid task, a download
\* timeout, HTTP error, connection error or oversize body and a failed
\* transcription each return an error; a failure of the probe or of the
\* truncation gives no error of its own and goes on to the transcription.
\* ------------------------------------------------------------------------
ListedProblems ==
    {"missing audio_url", "invalid task", "Timeout", "HTTPError",
     "ConnectionError", "ValueError", "transcription"}

C34_ErrorsReturnedNotRaised ==
    /\ handler_out # "raised"
    /\ (hd_pc = "done" /\ problem \in ListedProblems) => handler_out = "error"
    /\ (hd_pc = "done" /\ fell_through # "none")
          => problem \in {"none", "transcription"}

\* ------------------------------------------------------------------------
\* C38: when an invocation of the handler has ended, on any path, no file it
\* created (the download, the truncated copy) is left in TMP_DIR.
\* ------------------------------------------------------------------------
C38_TempFilesRemoved ==
    hd_pc = "done" => tmp_files = {}

\* ------------------------------------------------------------------------
\* C32: for every incoming ChatMessage the agent first sends the
\* acknowledgement of that message id and afterwards exactly one ChatMessage
\* that ends the session: the error reply, without a discovery run, when
\* language or language_code is missing, the result when the discovery
\* succeeds, the error reply when it raises; whether or not the payment
\* request could be sent.
\* ------------------------------------------------------------------------
Acks(id) ==
    {p \in DOMAIN outbox :
        outbox[p].type = "ChatAcknowledgement" /\ outbox[p].ref = id}

Endings(id) ==
    {p \in DOMAIN outbox :
        outbox[p].type = "ChatMessage" /\ outbox[p].ends /\ outbox[p].ref = id}

\* never two ending replies, none before the acknowledgement, and the reply
\* of a request that lacks a field is the error reply without a discovery
AckBeforeOneReply ==
    \A j \in DOMAIN inbox :
       /\ Cardinality(Endings(inbox[j].msg_id)) <= 1
       /\ \A e \in Endings(inbox[j].msg_id) :
            /\ \E a \in Acks(inbox[j].msg_id) : a < e
            /\ LET request == inbox[j].text
               IN  (request.language /\ request.language_code)
                      <=> (/\ outbox[e].body \in {"sources", "discovery error"}
                           /\ inbox[j].msg_id \in discovered)

AllAnswered ==
    \A j \in DOMAIN inbox : Cardinality(Endings(inbox[j].msg_id)) = 1

C32_AckThenOneEndingReply ==
    /\ [](AckBeforeOneReply)
    /\ <>(AllAnswered)
====
